---------------------------- MODULE Spec2Model ----------------------------
(***************************************************************************)
(* A model of the pyxel-3d software rendering pipeline: the frustum        *)
(* clipper (threed.py), the camera and mesh transforms, and the renderer   *)
(* variants (wireframe, hidden-line, scanline Gouraud, z-buffered Gouraud  *)
(* and Phong).                                                             *)
(*                                                                         *)
(* Numbers.  The program computes in binary64 floating point: every        *)
(* product and quotient is rounded to the nearest representable value.     *)
(* The model keeps that: a number is an integer count of 1/ONE units       *)
(* (fixed point), sums and differences are exact, and every product and    *)
(* quotient is rounded to the nearest unit, ties to even (FMul, FDiv).     *)
(* What the program's rounding makes possible (a clipped point that is     *)
(* still one unit outside the plane, a divisor that cancels to zero) is    *)
(* therefore possible in the model too.                                    *)
(***************************************************************************)
EXTENDS Integers, Sequences, FiniteSets, TLC

VARIABLES
    clip,   \* one call of clip_segment: its locals and its loop position
    wire,   \* one call of WireframeRenderer.draw_mesh, edge by edge
    ctor,   \* the construction of a camera and of a renderer on it
    scene,  \* a renderer, its mesh and the frames drawn with them
    pair    \* two copies of a z-buffered renderer, drawing in opposite orders

vars == <<clip, wire, ctor, scene, pair>>

\* The value of a variable the specification at hand does not use.
Unused == "unused"

(***************************************************************************)
(* Fixed-point arithmetic                                                  *)
(***************************************************************************)
FracBits == 10
ONE == 2^FracBits
HALF == ONE \div 2

Abs(n) == IF n < 0 THEN -n ELSE n

Sgn(n) == IF n < 0 THEN -1 ELSE 1

\* The quotient q of a by b with remainder r, rounded half to even.
RoundedUp(q, r, b) == IF 2 * r > b \/ (2 * r = b /\ q % 2 = 1) THEN q + 1 ELSE q

\* a/b rounded to the nearest integer, ties to even (a >= 0, b > 0).
RoundQuot(a, b) == RoundedUp(a \div b, a % b, b)

\* n/d rounded to the nearest integer, ties to even (d # 0).
RoundDiv(n, d) == Sgn(n) * Sgn(d) * RoundQuot(Abs(n), Abs(d))

FMul(a, b) == RoundDiv(a * b, ONE)

FDiv(a, b) == RoundDiv(a * ONE, b)

(***************************************************************************)
(* threed.py: Camera                                                       *)
(***************************************************************************)
\* math.tan(math.radians(fov_y_deg) / 2) for the fields of view used:
\* tan(30 deg) = 0.57735.., tan(45 deg) = 1.
TanHalfFov(fov_y_deg) ==
    IF fov_y_deg = 60 THEN RoundDiv(57735 * ONE, 100000) ELSE ONE

\* Camera.__init__.  The record's fields are the attributes the constructor
\* sets; screen_w and screen_h are used for cx and cy and are not kept.
\* fov_y holds the angle (the program keeps it in radians).
Camera(rx, ry, rz, tx, ty, tz, fov_y_deg, aspect_ratio, screen_w, screen_h, scale) ==
    [tx |-> tx, ty |-> ty, tz |-> tz, rx |-> rx, ry |-> ry, rz |-> rz,
     fov_y |-> fov_y_deg, aspect |-> aspect_ratio,
     AY |-> TanHalfFov(fov_y_deg),
     AX |-> FMul(TanHalfFov(fov_y_deg), aspect_ratio),
     cx |-> screen_w \div 2, cy |-> screen_h \div 2, scale |-> scale]

(***************************************************************************)
(* threed.py: rotate_xyz, Mesh, the transforms and the projection          *)
(***************************************************************************)
\* math.cos and math.sin of an angle in degrees, for the quarter turns.
CosDeg(d) ==
    CASE d % 360 = 0 -> ONE
      [] d % 360 = 180 -> -ONE
      [] OTHER -> 0

SinDeg(d) ==
    CASE d % 360 = 90 -> ONE
      [] d % 360 = 270 -> -ONE
      [] OTHER -> 0

RotateXYZ(X, Y, Z, RX, RY, RZ) ==
    LET CRX == CosDeg(RX)
        SRX == SinDeg(RX)
        CRY == CosDeg(RY)
        SRY == SinDeg(RY)
        CRZ == CosDeg(RZ)
        SRZ == SinDeg(RZ)
        R00 == FMul(CRY, CRZ)
        R01 == FMul(FMul(SRX, SRY), CRZ) - FMul(CRX, SRZ)
        R02 == FMul(FMul(CRX, SRY), CRZ) + FMul(SRX, SRZ)
        R10 == FMul(CRY, SRZ)
        R11 == FMul(FMul(SRX, SRY), SRZ) + FMul(CRX, CRZ)
        R12 == FMul(FMul(CRX, SRY), SRZ) - FMul(SRX, CRZ)
        R20 == -SRY
        R21 == FMul(SRX, CRY)
        R22 == FMul(CRX, CRY)
    IN  <<FMul(X, R00) + FMul(Y, R01) + FMul(Z, R02),
          FMul(X, R10) + FMul(Y, R11) + FMul(Z, R12),
          FMul(X, R20) + FMul(Y, R21) + FMul(Z, R22)>>

\* The largest r in lo..hi with r * r <= n.
RECURSIVE ISqrt(_, _, _)
ISqrt(n, lo, hi) ==
    IF lo >= hi THEN lo
    ELSE LET mid == (lo + hi + 1) \div 2
         IN  IF mid * mid <= n THEN ISqrt(n, mid, hi) ELSE ISqrt(n, lo, mid - 1)

\* f or f + 1, whichever is nearer to the square root of n (f * f <= n).
NearerRoot(n, f) == IF n - f * f > f THEN f + 1 ELSE f

\* math.sqrt of v >= 0, rounded to the nearest unit.
FSqrt(v) == NearerRoot(v * ONE, ISqrt(v * ONE, 0, IF v > ONE THEN v ELSE ONE))

\* sqrt(x*x + y*y + z*z)
Length3(v) == FSqrt(FMul(v[1], v[1]) + FMul(v[2], v[2]) + FMul(v[3], v[3]))

\* (x / d, y / d, z / d)
Over3(v, d) == <<FDiv(v[1], d), FDiv(v[2], d), FDiv(v[3], d)>>

\* A vector divided by its length, or (0, 0, 1) for length 0.
UnitOr(v, length) == IF length = 0 THEN <<0, 0, ONE>> ELSE Over3(v, length)

\* compute_vertex_normals: the direction of each point from the origin.
ComputeVertexNormals(points) ==
    [i \in DOMAIN points |-> UnitOr(points[i], Length3(points[i]))]

\* Mesh.__init__.  Segments and faces hold indices into points, counted from
\* 1 here and from 0 in the program.
Mesh(points, segments, faces, tx, ty, tz, rx, ry, rz, scale) ==
    [points |-> points, segments |-> segments, faces |-> faces,
     vertex_normals |-> ComputeVertexNormals(points),
     tx |-> tx, ty |-> ty, tz |-> tz, rx |-> rx, ry |-> ry, rz |-> rz,
     scale |-> scale]

\* Mesh.local_to_world
LocalToWorld(mesh, q) ==
    LET r == RotateXYZ(FMul(q[1], mesh.scale), FMul(q[2], mesh.scale),
                       FMul(q[3], mesh.scale), mesh.rx, mesh.ry, mesh.rz)
    IN  <<r[1] + mesh.tx, r[2] + mesh.ty, r[3] + mesh.tz>>

\* Camera.world_to_camera
WorldToCamera(cam, q) ==
    RotateXYZ(q[1] - cam.tx, q[2] - cam.ty, q[3] - cam.tz, cam.rx, cam.ry, cam.rz)

\* local -> world -> camera for every point of the mesh.
CamPts(cam, mesh) ==
    [i \in DOMAIN mesh.points |-> WorldToCamera(cam, LocalToWorld(mesh, mesh.points[i]))]

\* int(v): truncation toward zero, to a whole number.
IntOf(v) == Sgn(v) * (Abs(v) \div ONE)

\* Camera.project raises ZeroDivisionError for z = 0 ...
ProjectRaises(q) == q[3] = 0

\* ... and otherwise returns whole screen coordinates.
Project(cam, q) ==
    LET sx == FDiv(q[1], q[3])
        sy == FDiv(q[2], q[3])
    IN  <<IntOf(cam.cx * ONE + FMul(sx, cam.scale)),
          IntOf(cam.cy * ONE - FMul(sy, cam.scale))>>

(***************************************************************************)
(* threed.py: clip_segment                                                 *)
(***************************************************************************)
\* for _ in range(1, 100): the loop body runs at most 99 times.
MaxIter == 99

\* The 4-bit region code of a point, as the set of its set bits.
OutCodeNoTop(x, y, z, AX, AY) ==
    (IF x < -FMul(AX, z) THEN {1} ELSE {})
        \cup (IF x > FMul(AX, z) THEN {2} ELSE {})
        \cup (IF y < -FMul(AY, z) THEN {4} ELSE {})

OutCode(x, y, z, AX, AY) ==
    (IF x < -FMul(AX, z) THEN {1} ELSE {})
        \cup (IF x > FMul(AX, z) THEN {2} ELSE {})
        \cup (IF y < -FMul(AY, z) THEN {4} ELSE {})
        \cup (IF y > FMul(AY, z) THEN {8} ELSE {})

\* The codes of the two endpoints at the head of an iteration.
CodeOf0(s) == OutCode(s.X0, s.Y0, s.Z0, s.AX, s.AY)
CodeOf1(s) == OutCode(s.X1, s.Y1, s.Z1, s.AX, s.AY)

\* After "if C0 == 0: SWAP": point 0 is the endpoint to clip.
Swapped(s) ==
    IF CodeOf0(s) = {}
    THEN [s EXCEPT !.X0 = s.X1, !.Y0 = s.Y1, !.Z0 = s.Z1,
                   !.X1 = s.X0, !.Y1 = s.Y0, !.Z1 = s.Z0]
    ELSE s

\* The numerator and the divisor of T for the plane chosen by priority
\* left, right, bottom, top (s is the state after the swap).
TNum(s) ==
    LET C0 == CodeOf0(s)
    IN  IF 1 \in C0 THEN -s.X0 - FMul(s.AX, s.Z0)
        ELSE IF 2 \in C0 THEN FMul(s.AX, s.Z0) - s.X0
        ELSE IF 4 \in C0 THEN -s.Y0 - FMul(s.AY, s.Z0)
        ELSE FMul(s.AY, s.Z0) - s.Y0

TDen(s) ==
    LET C0 == CodeOf0(s)
    IN  IF 1 \in C0 THEN (s.X1 - s.X0) + FMul(s.AX, s.Z1 - s.Z0)
        ELSE IF 2 \in C0 THEN (s.X1 - s.X0) - FMul(s.AX, s.Z1 - s.Z0)
        ELSE IF 4 \in C0 THEN (s.Y1 - s.Y0) + FMul(s.AY, s.Z1 - s.Z0)
        ELSE (s.Y1 - s.Y0) - FMul(s.AY, s.Z1 - s.Z0)

\* The state a call starts in.
ClipStart(X0, Y0, Z0, X1, Y1, Z1, AX, AY) ==
    [X0 |-> X0, Y0 |-> Y0, Z0 |-> Z0, X1 |-> X1, Y1 |-> Y1, Z1 |-> Z1,
     AX |-> AX, AY |-> AY, it |-> 1, pc |-> "loop", F |-> -1,
     arg |-> <<X0, Y0, Z0, X1, Y1, Z1>>]

\* The branch one pass through the loop takes.
ClipBranch(s) ==
    IF s.it > MaxIter THEN "cap"
    ELSE IF CodeOf0(s) \cup CodeOf1(s) = {} THEN "accept"
    ELSE IF CodeOf0(s) \cap CodeOf1(s) # {} THEN "reject"
    ELSE IF TDen(Swapped(s)) = 0 THEN "raise"
    ELSE "move"

\* One pass through the loop: the return of the accept and reject tests, the
\* for-else return, the ZeroDivisionError of a zero divisor, or the move of
\* point 0 to the intersection.
\* Point 0 of w moved along the segment by T.
MovedBy(w, T) ==
    [w EXCEPT !.X0 = w.X0 + FMul(w.X1 - w.X0, T),
              !.Y0 = w.Y0 + FMul(w.Y1 - w.Y0, T),
              !.Z0 = w.Z0 + FMul(w.Z1 - w.Z0, T),
              !.it = w.it + 1]

\* The pass that takes branch b from state s, w being s after the swap.
ClipPass(s, b, w) ==
    CASE b = "cap" -> [s EXCEPT !.pc = "returned", !.F = 1]
      [] b = "accept" -> [s EXCEPT !.pc = "returned", !.F = 0]
      [] b = "reject" -> [s EXCEPT !.pc = "returned", !.F = 1]
      [] b = "raise" -> [w EXCEPT !.pc = "raised"]
      [] OTHER -> MovedBy(w, FDiv(TNum(w), TDen(w)))

ClipIter(s) == ClipPass(s, ClipBranch(s), Swapped(s))

\* A whole call: the passes run to the return or the raise.
RECURSIVE ClipRun(_)
ClipRun(s) == IF s.pc # "loop" THEN s ELSE ClipRun(ClipIter(s))

ClipSegment(X0, Y0, Z0, X1, Y1, Z1, AX, AY) ==
    ClipRun(ClipStart(X0, Y0, Z0, X1, Y1, Z1, AX, AY))

(***************************************************************************)
(* Specification SpecClip: one call of clip_segment, pass by pass.         *)
(***************************************************************************)
MaxCoord == 3

\* The segments tried have coordinates of a few grid units, where the
\* rounding of a product is large against the coordinates themselves (in
\* floating point the same holds at every magnitude).
ClipStep == 4
ClipX == {k * ClipStep : k \in -MaxCoord..MaxCoord}
ClipZ == {k * ClipStep : k \in -1..MaxCoord}
ClipY == {-2 * ClipStep, 0, 2 * ClipStep}

\* The clip slopes tried: those of a 60 degree camera of aspect 160/120 (the
\* default) and of aspect 512/512 (the demo's).
ClipCameras ==
    {Camera(0, 0, 0, 0, 0, 0, 60, RoundDiv(a[1] * ONE, a[2]), 4, 4, ONE) :
        a \in {<<160, 120>>, <<512, 512>>}}

InitClip ==
    \E X0 \in ClipX, Z0 \in ClipZ, X1 \in ClipX, Z1 \in ClipZ, Y0 \in ClipY,
       cam \in ClipCameras :
        /\ clip = ClipStart(X0, Y0, Z0, X1, 0, Z1, cam.AX, cam.AY)
        /\ wire = Unused
        /\ ctor = Unused
        /\ scene = Unused
        /\ pair = Unused

ClipAccept ==
    /\ clip.pc = "loop" /\ ClipBranch(clip) = "accept"
    /\ clip' = ClipIter(clip)
    /\ UNCHANGED <<wire, ctor, scene, pair>>

ClipReject ==
    /\ clip.pc = "loop" /\ ClipBranch(clip) = "reject"
    /\ clip' = ClipIter(clip)
    /\ UNCHANGED <<wire, ctor, scene, pair>>

ClipMove ==
    /\ clip.pc = "loop" /\ ClipBranch(clip) = "move"
    /\ clip' = ClipIter(clip)
    /\ UNCHANGED <<wire, ctor, scene, pair>>

ClipRaise ==
    /\ clip.pc = "loop" /\ ClipBranch(clip) = "raise"
    /\ clip' = ClipIter(clip)
    /\ UNCHANGED <<wire, ctor, scene, pair>>

ClipCap ==
    /\ clip.pc = "loop" /\ ClipBranch(clip) = "cap"
    /\ clip' = ClipIter(clip)
    /\ UNCHANGED <<wire, ctor, scene, pair>>

NextClip == ClipAccept \/ ClipReject \/ ClipMove \/ ClipRaise \/ ClipCap

SpecClip == InitClip /\ [][NextClip]_vars

(***************************************************************************)
(* Claims about clip_segment (checked under SpecClip)                      *)
(***************************************************************************)
\* The endpoints the call was given and the endpoints it holds now.
ArgP0 == <<clip.arg[1], clip.arg[2], clip.arg[3]>>
ArgP1 == <<clip.arg[4], clip.arg[5], clip.arg[6]>>
CurP0 == <<clip.X0, clip.Y0, clip.Z0>>
CurP1 == <<clip.X1, clip.Y1, clip.Z1>>

\* |x| <= AX*z and |y| <= AY*z.
InsideFrustum(p) ==
    /\ Abs(p[1]) <= FMul(clip.AX, p[3])
    /\ Abs(p[2]) <= FMul(clip.AY, p[3])

\* Both points are beyond the same one of the four planes.
BeyondSamePlane(p, q) ==
    \/ p[1] < -FMul(clip.AX, p[3]) /\ q[1] < -FMul(clip.AX, q[3])
    \/ p[1] > FMul(clip.AX, p[3]) /\ q[1] > FMul(clip.AX, q[3])
    \/ p[2] < -FMul(clip.AY, p[3]) /\ q[2] < -FMul(clip.AY, q[3])
    \/ p[2] > FMul(clip.AY, p[3]) /\ q[2] > FMul(clip.AY, q[3])

\* p lies on the plane of region-code bit b.
OnPlane(p, b) ==
    CASE b = 1 -> p[1] = -FMul(clip.AX, p[3])
      [] b = 2 -> p[1] = FMul(clip.AX, p[3])
      [] b = 4 -> p[2] = -FMul(clip.AY, p[3])
      [] OTHER -> p[2] = FMul(clip.AY, p[3])

\* C2 (as claimed): clip_segment always returns: it never raises, it makes at
\* most MaxIter passes, and when the passes are used up it returns F = 1.
C2_ClipAlwaysReturns ==
    /\ clip.pc # "raised"
    /\ clip.it <= MaxIter + 1
    /\ (clip.pc = "returned" /\ clip.it > MaxIter => clip.F = 1)

\* What holds of C2: the passes are capped and an exhausted cap rejects; the
\* call ends by a return or by the ZeroDivisionError of a zero divisor.
ClipCappedOrRaises ==
    /\ clip.it <= MaxIter + 1
    /\ (clip.pc = "returned" /\ clip.it > MaxIter => clip.F = 1)
    /\ (clip.pc = "raised" => TDen(clip) = 0)

\* C3: a segment with both endpoints inside the frustum is accepted on the
\* first pass with its six coordinates as given, in the same order; a segment
\* with both endpoints beyond the same plane is rejected on the first pass.
C3_AcceptInsideRejectShared ==
    /\ (InsideFrustum(ArgP0) /\ InsideFrustum(ArgP1)
            => /\ clip.it = 1
               /\ clip.pc \in {"loop", "returned"}
               /\ clip.pc = "returned"
                    => clip.F = 0 /\ CurP0 = ArgP0 /\ CurP1 = ArgP1)
    /\ (BeyondSamePlane(ArgP0, ArgP1)
            => /\ clip.it = 1
               /\ clip.pc \in {"loop", "returned"}
               /\ clip.pc = "returned" => clip.F = 1)

C3_Witness ==
    /\ clip.pc = "returned" /\ clip.F = 0 /\ clip.it = 1
    /\ InsideFrustum(ArgP0) /\ InsideFrustum(ArgP1)
    /\ ArgP0 # ArgP1

\* A segment rejected on the first pass for a shared plane.
C3_WitnessReject ==
    /\ clip.pc = "returned" /\ clip.F = 1 /\ clip.it = 1
    /\ BeyondSamePlane(ArgP0, ArgP1)

\* The call was given one endpoint inside the frustum and one endpoint
\* violating exactly one plane: the inside endpoint and the plane's bit.
OneCrossing(inside, outside) ==
    /\ InsideFrustum(inside)
    /\ Cardinality(OutCode(outside[1], outside[2], outside[3], clip.AX, clip.AY)) = 1

PlaneBitOf(p) == CHOOSE b \in OutCode(p[1], p[2], p[3], clip.AX, clip.AY) : TRUE

\* The result keeps `inside` as one endpoint and has the other on plane b.
KeepsAndClips(inside, b) ==
    \/ CurP0 = inside /\ OnPlane(CurP1, b)
    \/ CurP1 = inside /\ OnPlane(CurP0, b)

\* C4 (as claimed): one endpoint inside and the other violating exactly one
\* plane: the call accepts, the inside endpoint is unchanged and the other
\* endpoint is returned on the violated plane.
C4_OneCrossingClippedOntoPlane ==
    clip.pc # "loop" =>
        /\ (OneCrossing(ArgP0, ArgP1)
                => clip.pc = "returned" /\ clip.F = 0
                   /\ KeepsAndClips(ArgP0, PlaneBitOf(ArgP1)))
        /\ (OneCrossing(ArgP1, ArgP0)
                => clip.pc = "returned" /\ clip.F = 0
                   /\ KeepsAndClips(ArgP1, PlaneBitOf(ArgP0)))

\* The cases of C4 the program gets right and the cases it does not.
C4_SomeAcceptedOnPlane ==
    /\ clip.pc = "returned" /\ clip.F = 0 /\ OneCrossing(ArgP0, ArgP1)
    /\ KeepsAndClips(ArgP0, PlaneBitOf(ArgP1))

C4_SomeRejected ==
    /\ clip.pc = "returned" /\ clip.F = 1 /\ OneCrossing(ArgP0, ArgP1)

(***************************************************************************)
(* wireframe_renderer.py: WireframeRenderer.draw_mesh                      *)
(***************************************************************************)
\* tuple(sorted((i, j)))
SortedPair(i, j) == IF i <= j THEN <<i, j>> ELSE <<j, i>>

\* The edge set built from the faces when the mesh has no segments.
FaceEdges(faces) ==
    UNION {{SortedPair(faces[f][1], faces[f][2]),
            SortedPair(faces[f][2], faces[f][3]),
            SortedPair(faces[f][3], faces[f][1])} : f \in DOMAIN faces}

\* The sequences that list each element of the set S once.
Orderings(S) ==
    {q \in [1..Cardinality(S) -> S] : \A e \in S : \E i \in DOMAIN q : q[i] = e}

\* The segment lists draw_mesh may walk: mesh.segments, or list(edges), whose
\* order is the set's iteration order.
SegmentLists(mesh) ==
    IF mesh.segments = <<>> /\ mesh.faces # <<>>
    THEN Orderings(FaceEdges(mesh.faces))
    ELSE {mesh.segments}

\* The state a call of draw_mesh starts in.  res holds what clip_segment
\* gave for the edge at hand, once it has been called.
NoResult == [pc |-> "none"]

WireStart(cam, mesh, color) ==
    [cam |-> cam, mesh |-> mesh, color |-> color, cam_pts |-> <<>>,
     segs |-> <<>>, k |-> 1, res |-> NoResult, lines |-> <<>>,
     projected |-> <<>>, pc |-> "start"]

\* The endpoints of the edge at hand, and its clipped endpoints.
WireP0 == wire.cam_pts[wire.segs[wire.k][1]]
WireP1 == wire.cam_pts[wire.segs[wire.k][2]]
WireC0 == <<wire.res.X0, wire.res.Y0, wire.res.Z0>>
WireC1 == <<wire.res.X1, wire.res.Y1, wire.res.Z1>>

WireAtEdge == wire.pc = "edges" /\ wire.k <= Len(wire.segs)
WireBothBehind == WireP0[3] <= 0 /\ WireP1[3] <= 0
WireAccepted == WireAtEdge /\ wire.res.pc = "returned" /\ wire.res.F = 0

\* Steps 1 and 2: the camera-space points and the segment list.
WireBegin ==
    /\ wire.pc = "start"
    /\ \E segs \in SegmentLists(wire.mesh) :
        wire' = [wire EXCEPT !.cam_pts = CamPts(wire.cam, wire.mesh),
                             !.segs = segs, !.pc = "edges"]
    /\ UNCHANGED <<clip, ctor, scene, pair>>

\* if z0 <= 0 and z1 <= 0: continue
WireSkipBehind ==
    /\ WireAtEdge /\ wire.res = NoResult /\ WireBothBehind
    /\ wire' = [wire EXCEPT !.k = wire.k + 1]
    /\ UNCHANGED <<clip, ctor, scene, pair>>

\* The call of clip_segment_fast: it returns, or it raises and draw_mesh
\* ends with the exception.
WireClipCall ==
    /\ WireAtEdge /\ wire.res = NoResult /\ ~WireBothBehind
    /\ LET r == ClipSegment(WireP0[1], WireP0[2], WireP0[3],
                            WireP1[1], WireP1[2], WireP1[3],
                            wire.cam.AX, wire.cam.AY)
       IN  wire' = [wire EXCEPT !.res = r,
                        !.pc = IF r.pc = "raised" THEN "raised" ELSE "edges"]
    /\ UNCHANGED <<clip, ctor, scene, pair>>

\* if F != 0: continue
WireClipReject ==
    /\ WireAtEdge /\ wire.res.pc = "returned" /\ wire.res.F # 0
    /\ wire' = [wire EXCEPT !.k = wire.k + 1, !.res = NoResult]
    /\ UNCHANGED <<clip, ctor, scene, pair>>

\* cam.project of the first or of the second clipped endpoint raises.
WireProjectRaise ==
    /\ WireAccepted
    /\ \/ /\ ProjectRaises(WireC0)
          /\ wire' = [wire EXCEPT !.projected = Append(wire.projected, WireC0),
                                   !.pc = "raised"]
       \/ /\ ~ProjectRaises(WireC0) /\ ProjectRaises(WireC1)
          /\ wire' = [wire EXCEPT
                        !.projected = wire.projected \o <<WireC0, WireC1>>,
                        !.pc = "raised"]
    /\ UNCHANGED <<clip, ctor, scene, pair>>

\* Both endpoints are projected and the line is drawn.
WireDraw ==
    /\ WireAccepted /\ ~ProjectRaises(WireC0) /\ ~ProjectRaises(WireC1)
    /\ wire' = [wire EXCEPT
                    !.projected = wire.projected \o <<WireC0, WireC1>>,
                    !.lines = Append(wire.lines,
                        <<Project(wire.cam, WireC0), Project(wire.cam, WireC1),
                          wire.color>>),
                    !.k = wire.k + 1, !.res = NoResult]
    /\ UNCHANGED <<clip, ctor, scene, pair>>

WireEnd ==
    /\ wire.pc = "edges" /\ wire.k > Len(wire.segs)
    /\ wire' = [wire EXCEPT !.pc = "done"]
    /\ UNCHANGED <<clip, ctor, scene, pair>>

(***************************************************************************)
(* Specification SpecWire: one call of WireframeRenderer.draw_mesh.        *)
(***************************************************************************)
MaxDepth == 2

WirePoints == {<<x * ONE, 0, z * ONE>> : x \in -1..1, z \in -1..MaxDepth}

\* A mesh of one explicit segment, or of one face whose edges are derived.
WireMeshes ==
    {Mesh(<<a, b>>, <<<<1, 2>>>>, <<>>, 0, 0, 0, 0, t[1], 0, t[2]) :
        a \in WirePoints, b \in WirePoints,
        t \in {<<0, ONE>>, <<90, ONE>>}}
    \cup {Mesh(<<a, b, <<0, ONE, 2 * ONE>>>>, <<>>, <<<<1, 2, 3>>>>,
                0, 0, 0, 0, 0, 0, ONE) :
            a \in WirePoints, b \in WirePoints}

\* The demo's camera (60 degrees, aspect 1) on a small screen, at the origin
\* or one unit behind it.
WireCameras ==
    {Camera(0, 0, 0, 0, 0, tz, 60, ONE, 8, 8, 2 * ONE) : tz \in {0, -ONE}}

InitWire ==
    /\ clip = Unused
    /\ ctor = Unused
    /\ scene = Unused
    /\ pair = Unused
    /\ \E cam \in WireCameras, mesh \in WireMeshes : wire = WireStart(cam, mesh, 7)

NextWire ==
    \/ WireBegin
    \/ WireSkipBehind
    \/ WireClipCall
    \/ WireClipReject
    \/ WireProjectRaise
    \/ WireDraw
    \/ WireEnd

SpecWire == InitWire /\ [][NextWire]_vars

\* C5 (as claimed): every point WireframeRenderer.draw_mesh passes to
\* Camera.project has camera-space z > 0, so project never divides by zero.
C5_ProjectOnlyInFront ==
    \A i \in DOMAIN wire.projected : wire.projected[i][3] > 0

\* What holds of C5: no point behind the camera is projected; a point at
\* depth 0 (the camera's own position) is.
WireProjectsNoNegativeDepth ==
    \A i \in DOMAIN wire.projected : wire.projected[i][3] >= 0

(***************************************************************************)
(* z_gouraud_renderer.py, phong_renderer.py: the constructors              *)
(***************************************************************************)
\* z_far = 1e9, kept as 10^9 grid units (TLC's integers are 32 bits wide);
\* every depth the model reaches is far below it.
ZFar == 1000000000

\* hasattr(obj, name)
HasAttr(obj, name) == name \in DOMAIN obj

\* lx / L, ly / L, lz / L with L = sqrt(lx*lx + ly*ly + lz*lz) or 1.0
OrOne(L) == IF L = 0 THEN ONE ELSE L

LightOrUnit(light_dir) == Over3(light_dir, OrOne(Length3(light_dir)))

\* [[z_far] * width for _ in range(height)]: zbuf[y][x]
NewZBuf(width, height) == [y \in 0..(height - 1) |-> [x \in 0..(width - 1) |-> ZFar]]

\* The screen size ZBufferedGouraudRenderer.__init__ takes from the camera.
ZGWidth(camera) ==
    IF HasAttr(camera, "screen_w") /\ HasAttr(camera, "screen_h")
    THEN camera.screen_w ELSE camera.cx * 2

ZGHeight(camera) ==
    IF HasAttr(camera, "screen_w") /\ HasAttr(camera, "screen_h")
    THEN camera.screen_h ELSE camera.cy * 2

ZBufferedGouraudRenderer(camera, light_dir, ambient, shade_levels) ==
    [kind |-> "zgouraud", camera |-> camera, ambient |-> ambient,
     shade_levels |-> shade_levels,
     width |-> ZGWidth(camera), height |-> ZGHeight(camera),
     light_dir |-> LightOrUnit(light_dir), z_far |-> ZFar,
     zbuf |-> NewZBuf(ZGWidth(camera), ZGHeight(camera))]

\* The screen size PhongRenderer.__init__ takes from the camera.
PhWidth(camera) == IF HasAttr(camera, "screen_w") THEN camera.screen_w ELSE camera.cx * 2

PhHeight(camera) == IF HasAttr(camera, "screen_w") THEN camera.screen_h ELSE camera.cy * 2

PhongRenderer(camera, light_dir, ambient, diffuse, specular, shininess, shade_levels, dithering, highlighting) ==
    [kind |-> "phong", camera |-> camera, ambient |-> ambient,
     diffuse |-> diffuse, specular |-> specular, shininess |-> shininess,
     shade_levels |-> shade_levels, dithering |-> dithering,
     highlighting |-> highlighting,
     width |-> PhWidth(camera), height |-> PhHeight(camera),
     light_dir |-> LightOrUnit(light_dir), z_far |-> ZFar,
     zbuf |-> NewZBuf(PhWidth(camera), PhHeight(camera))]

\* The default coefficients: ambient 0.2, diffuse 0.8, specular 0.4.
Ambient02 == RoundDiv(2 * ONE, 10)
Diffuse08 == RoundDiv(8 * ONE, 10)
Specular04 == RoundDiv(4 * ONE, 10)

(***************************************************************************)
(* Specification SpecInit: a camera is constructed for a screen size and   *)
(* a renderer is constructed on it.                                        *)
(***************************************************************************)
MaxScreen == 6

LightDirs == {<<ONE, -ONE, -ONE>>, <<0, 0, -ONE>>}

InitCtor ==
    /\ clip = Unused
    /\ wire = Unused
    /\ scene = Unused
    /\ pair = Unused
    /\ ctor = [pc |-> "none"]

NewCamera ==
    /\ ctor.pc = "none"
    /\ \E screen_w \in 1..MaxScreen, screen_h \in 1..MaxScreen :
        ctor' = [pc |-> "camera", screen_w |-> screen_w, screen_h |-> screen_h,
                 camera |-> Camera(0, 0, 0, 0, 0, -3 * ONE, 60,
                                   FDiv(screen_w * ONE, screen_h * ONE),
                                   screen_w, screen_h, ONE)]
    /\ UNCHANGED <<clip, wire, scene, pair>>

NewZBufferedGouraudRenderer ==
    /\ ctor.pc = "camera"
    /\ \E light_dir \in LightDirs :
        ctor' = [ctor EXCEPT !.pc = "renderer"] @@
                [renderer |-> ZBufferedGouraudRenderer(ctor.camera, light_dir, Ambient02, 8)]
    /\ UNCHANGED <<clip, wire, scene, pair>>

NewPhongRenderer ==
    /\ ctor.pc = "camera"
    /\ \E light_dir \in LightDirs, dithering \in BOOLEAN :
        ctor' = [ctor EXCEPT !.pc = "renderer"] @@
                [renderer |-> PhongRenderer(ctor.camera, light_dir, Ambient02,
                                            Diffuse08, Specular04, 32, 16,
                                            dithering, FALSE)]
    /\ UNCHANGED <<clip, wire, scene, pair>>

NextCtor == NewCamera \/ NewZBufferedGouraudRenderer \/ NewPhongRenderer

SpecInit == InitCtor /\ [][NextCtor]_vars

\* C8 (as claimed): the depth buffer has screen_h rows of screen_w entries,
\* for every positive screen size the camera was constructed with.
C8_ZBufOneEntryPerPixel ==
    ctor.pc = "renderer" =>
        /\ DOMAIN ctor.renderer.zbuf = 0..(ctor.screen_h - 1)
        /\ \A y \in DOMAIN ctor.renderer.zbuf :
                DOMAIN ctor.renderer.zbuf[y] = 0..(ctor.screen_w - 1)

\* What holds of C8: the buffer has 2*(screen_h // 2) rows of
\* 2*(screen_w // 2) entries, one per pixel for even sizes only.
ZBufEvenSized ==
    ctor.pc = "renderer" =>
        /\ DOMAIN ctor.renderer.zbuf = 0..(2 * (ctor.screen_h \div 2) - 1)
        /\ \A y \in DOMAIN ctor.renderer.zbuf :
                DOMAIN ctor.renderer.zbuf[y] = 0..(2 * (ctor.screen_w \div 2) - 1)

(***************************************************************************)
(* The pyxel surface: the calls issued since the last cls, each with the   *)
(* face it was issued for (0 for a call that belongs to no face).          *)
(***************************************************************************)
Call(op, face, args) == [op |-> op, face |-> face, args |-> args]

\* The colour a pixel shows: the last pset at it, or the cls colour.
RECURSIVE PixelOf(_, _, _)
PixelOf(calls, x, y) ==
    IF calls = <<>> THEN 0
    ELSE LET c == calls[Len(calls)]
         IN  IF c.op = "pset" /\ c.args[1] = x /\ c.args[2] = y THEN c.args[3]
             ELSE PixelOf(SubSeq(calls, 1, Len(calls) - 1), x, y)

(***************************************************************************)
(* z_gouraud_renderer.py: ZBufferedGouraudRenderer._draw_triangle          *)
(***************************************************************************)
\* math.floor and math.ceil, to a whole number.
FloorOf(v) == v \div ONE

CeilOf(v) == -((-v) \div ONE)

Min2(a, b) == IF a <= b THEN a ELSE b

Max2(a, b) == IF a >= b THEN a ELSE b

Min3(a, b, c) == Min2(a, Min2(b, c))

Max3(a, b, c) == Max2(a, Max2(b, c))

\* A vertex handed to _draw_triangle: screen point p, depth z and either an
\* intensity c (Gouraud) or a normal n (Phong).  T is a tuple of three.
Vertex(p, z, c, n) == [p |-> p, z |-> z, c |-> c, n |-> n]

\* denom = (y1 - y2) * (x0 - x2) + (x2 - x1) * (y0 - y2)
Denom(T) ==
    FMul(T[2].p[2] - T[3].p[2], T[1].p[1] - T[3].p[1])
        + FMul(T[3].p[1] - T[2].p[1], T[1].p[2] - T[3].p[2])

\* The barycentric weights of the pixel centre (xx, yy).
BaryW0(T, xx, yy) ==
    FMul(FMul(T[2].p[2] - T[3].p[2], xx - T[3].p[1])
            + FMul(T[3].p[1] - T[2].p[1], yy - T[3].p[2]),
         FDiv(ONE, Denom(T)))

BaryW1(T, xx, yy) ==
    FMul(FMul(T[3].p[2] - T[1].p[2], xx - T[3].p[1])
            + FMul(T[1].p[1] - T[3].p[1], yy - T[3].p[2]),
         FDiv(ONE, Denom(T)))

\* w0 * a + w1 * b + w2 * c
Weighted(w0, w1, w2, a, b, c) == FMul(w0, a) + FMul(w1, b) + FMul(w2, c)

\* The weights of a fragment and the depth z interpolated with them.
FragmentOf(T, w0, w1, w2) ==
    [w0 |-> w0, w1 |-> w1, w2 |-> w2,
     z |-> Weighted(w0, w1, w2, T[1].z, T[2].z, T[3].z)]

\* w2 = 1.0 - w0 - w1
FragmentWith(T, w0, w1) == FragmentOf(T, w0, w1, ONE - w0 - w1)

\* What the loop body computes for pixel (x, y), sampled at its centre.
Fragment(T, x, y) ==
    FragmentWith(T, BaryW0(T, x * ONE + HALF, y * ONE + HALF),
                    BaryW1(T, x * ONE + HALF, y * ONE + HALF))

\* if w0 < 0 or w1 < 0 or w2 < 0: continue / if z <= 0: continue
FragmentCovers(f) == f.w0 >= 0 /\ f.w1 >= 0 /\ f.w2 >= 0 /\ f.z > 0

\* if z >= zbuf[y][x]: continue
DepthTestAlwaysPasses(z, stored) == FALSE

\* A depth test that keeps the farther fragment, and one that lets an equal
\* depth through.
DepthTestKeepsFarther(z, stored) == z <= stored
DepthTestStrict(z, stored) == z > stored

DepthTestFails(z, stored) == z >= stored

\* The bounding box on the surface, by floor and ceil.
ZGBox(r, T) ==
    [min_x |-> Max2(FloorOf(Min3(T[1].p[1], T[2].p[1], T[3].p[1])), 0),
     max_x |-> Min2(CeilOf(Max3(T[1].p[1], T[2].p[1], T[3].p[1])), r.width - 1),
     min_y |-> Max2(FloorOf(Min3(T[1].p[2], T[2].p[2], T[3].p[2])), 0),
     max_y |-> Min2(CeilOf(Max3(T[1].p[2], T[2].p[2], T[3].p[2])), r.height - 1)]

\* The pixels of a box in the order the two loops visit them.
BoxPixels(b) ==
    IF b.min_x > b.max_x \/ b.min_y > b.max_y THEN <<>>
    ELSE LET w == b.max_x - b.min_x + 1
             h == b.max_y - b.min_y + 1
         IN  [k \in 1..(w * h) |-> <<b.min_x + ((k - 1) % w), b.min_y + ((k - 1) \div w)>>]

\* The fragment passes the weight test, the z test and the depth test.
FragmentWrites(f, stored) == FragmentCovers(f) /\ ~DepthTestFails(f.z, stored)

\* The pixels of the box a triangle is written to: covered, and nearer than
\* the depth stored before the call (a call visits each pixel once).
Written(r, T, box) ==
    IF Denom(T) = 0 THEN <<>>
    ELSE SelectSeq(BoxPixels(box),
            LAMBDA q : FragmentWrites(Fragment(T, q[1], q[2]), r.zbuf[q[2]][q[1]]))

\* zbuf[y][x] = z for the pixels written.
ZBufAfter(r, T, hit) ==
    [y \in DOMAIN r.zbuf |-> [x \in DOMAIN r.zbuf[y] |->
        IF \E i \in DOMAIN hit : hit[i] = <<x, y>>
        THEN Fragment(T, x, y).z ELSE r.zbuf[y][x]]]

\* c clamped to 0..1
Clamp01(c) == IF c < 0 THEN 0 ELSE IF c > ONE THEN ONE ELSE c

\* The intensity interpolated at fragment f.
ZGIntensityAt(T, f) == Weighted(f.w0, f.w1, f.w2, T[1].c, T[2].c, T[3].c)

\* shade = int(c * (self.shade_levels - 1)) of the interpolated intensity
ZGShade(r, T, x, y) ==
    IntOf(Clamp01(ZGIntensityAt(T, Fragment(T, x, y))) * (r.shade_levels - 1))

\* The depth buffer and the surface after the pixels hit have been written.
ZGWrite(r, calls, face, T, hit) ==
    [r |-> [r EXCEPT !.zbuf = ZBufAfter(r, T, hit)],
     calls |-> calls \o [i \in DOMAIN hit |->
                Call("pset", face,
                     <<hit[i][1], hit[i][2], ZGShade(r, T, hit[i][1], hit[i][2])>>)]]

\* _draw_triangle: the renderer and the surface after the call.
ZGDrawTriangle(r, calls, face, T) ==
    ZGWrite(r, calls, face, T, Written(r, T, ZGBox(r, T)))

(***************************************************************************)
(* phong_renderer.py: hash01, phong_intensity, PhongRenderer._draw_triangle*)
(***************************************************************************)
\* a ^ b for non-negative integers, bit by bit.
RECURSIVE BitXor(_, _)
BitXor(a, b) ==
    IF a = 0 THEN b
    ELSE IF b = 0 THEN a
    ELSE 2 * BitXor(a \div 2, b \div 2) + ((a + b) % 2)

\* The low byte of a product: (x * k) & 0xFF.
LowByte(x, k) == (x * k) % 256

\* A source of the round-up threshold that changes from frame to frame, as
\* random.random() would.
Hash01PerFrame(x, y) ==
    RoundDiv(((BitXor(LowByte(x, 73856093), LowByte(y, 19349663)) + 97 * scene.frame) % 256) * ONE, 255)

\* hash01(x, y) = (((x * 73856093) ^ (y * 19349663)) & 0xFF) / 255.0
\* The mask distributes over the exclusive or, so only the low bytes of the
\* two products are combined.
Hash01(x, y) == RoundDiv(BitXor(LowByte(x, 73856093), LowByte(y, 19349663)) * ONE, 255)

Square(v) == FMul(v, v)

\* v ** n for a non-negative integer n, by repeated squaring.
RECURSIVE FPow(_, _)
FPow(v, n) ==
    IF n = 0 THEN ONE
    ELSE IF n % 2 = 0 THEN Square(FPow(v, n \div 2))
    ELSE FMul(v, FPow(v, n - 1))

Dot3(a, b) == FMul(a[1], b[1]) + FMul(a[2], b[2]) + FMul(a[3], b[3])

\* spec = (vr ** shininess) * specular for diff > 0 and vr > 0, else 0
Specular(r, diff, vr) ==
    IF diff > 0 /\ vr > 0 THEN FMul(FPow(vr, r.shininess), r.specular) ELSE 0

\* The sum ambient + diff * diffuse + spec as it is before the clamp.
PhongOfUnclamped(r, n, diff) ==
    r.ambient + FMul(diff, r.diffuse)
        + Specular(r, diff, FMul(2 * diff, n[3]) - r.light_dir[3])

\* i = ambient + diff * diffuse + spec, clamped; vr = 2 * diff * nz - lz
PhongOf(r, n, diff) ==
    Max2(0, Min2(ONE, r.ambient + FMul(diff, r.diffuse)
                        + Specular(r, diff, FMul(2 * diff, n[3]) - r.light_dir[3])))

\* phong_intensity(nx, ny, nz)
PhongIntensity(r, n) == PhongOf(r, n, Max2(0, Dot3(n, r.light_dir)))

\* The normal interpolated at a fragment, normalised ((0, 0, 1) for length 0).
PhInterpolated(T, f) ==
    <<Weighted(f.w0, f.w1, f.w2, T[1].n[1], T[2].n[1], T[3].n[1]),
      Weighted(f.w0, f.w1, f.w2, T[1].n[2], T[2].n[2], T[3].n[2]),
      Weighted(f.w0, f.w1, f.w2, T[1].n[3], T[2].n[3], T[3].n[3])>>

PhNormalised(n) == UnitOr(n, Length3(n))

PhNormal(T, f) == PhNormalised(PhInterpolated(T, f))

\* The shade index of intensity c at pixel (x, y), dithered or not.
\* s0 = int(v), frac = v - s0: one level up where hash01(x, y) < frac
Dithered(r, v, s0, x, y) ==
    IF Hash01(x, y) < v - s0 * ONE THEN Min2(s0 + 1, r.shade_levels - 1) ELSE s0

PhLevel(r, v, x, y) == IF r.dithering THEN Dithered(r, v, IntOf(v), x, y) ELSE IntOf(v)

PhShadeOf(r, c, x, y) == PhLevel(r, c * (r.shade_levels - 1), x, y)

PhShade(r, T, x, y) ==
    PhShadeOf(r, PhongIntensity(r, PhNormal(T, Fragment(T, x, y))), x, y)

\* The bounding box on the surface, by int().
PhBox(r, T) ==
    [min_x |-> Max2(IntOf(Min3(T[1].p[1], T[2].p[1], T[3].p[1])), 0),
     max_x |-> Min2(IntOf(Max3(T[1].p[1], T[2].p[1], T[3].p[1])), r.width - 1),
     min_y |-> Max2(IntOf(Min3(T[1].p[2], T[2].p[2], T[3].p[2])), 0),
     max_y |-> Min2(IntOf(Max3(T[1].p[2], T[2].p[2], T[3].p[2])), r.height - 1)]

\* _draw_triangle: the renderer and the surface after the call.
PhWrite(r, calls, face, T, hit) ==
    [r |-> [r EXCEPT !.zbuf = ZBufAfter(r, T, hit)],
     calls |-> calls \o [i \in DOMAIN hit |->
                Call("pset", face,
                     <<hit[i][1], hit[i][2], PhShade(r, T, hit[i][1], hit[i][2])>>)]]

PhDrawTriangle(r, calls, face, T) ==
    PhWrite(r, calls, face, T, Written(r, T, PhBox(r, T)))

(***************************************************************************)
(* draw_mesh of the z-buffered renderers: projection, vertex normals       *)
(***************************************************************************)
\* proj[i] = None
None == <<>>

\* proj[i] = (float(sx), float(sy), float(z)), or None for z <= 0
ProjOrNone(cam, cam_pts) ==
    [i \in DOMAIN cam_pts |->
        IF cam_pts[i][3] <= 0 THEN None
        ELSE LET s == Project(cam, cam_pts[i])
             IN  <<s[1] * ONE, s[2] * ONE, cam_pts[i][3]>>]

\* u x v
Cross(u, v) ==
    <<FMul(u[2], v[3]) - FMul(u[3], v[2]),
      FMul(u[3], v[1]) - FMul(u[1], v[3]),
      FMul(u[1], v[2]) - FMul(u[2], v[1])>>

Minus3(a, b) == <<a[1] - b[1], a[2] - b[2], a[3] - b[3]>>

\* The camera-space normal (v1 - v0) x (v2 - v0) of a face.
FaceNormal(cam_pts, f) ==
    Cross(Minus3(cam_pts[f[2]], cam_pts[f[1]]), Minus3(cam_pts[f[3]], cam_pts[f[1]]))

\* How often face f lists vertex i.
Uses(f, i) == Cardinality({j \in 1..3 : f[j] = i})

\* a + u * n
AddTimes(a, u, n) == <<a[1] + u * n[1], a[2] + u * n[2], a[3] + u * n[3]>>

\* vnorm[i] before normalisation: the sum of the normals of the faces at i.
RECURSIVE VNormSum(_, _, _, _)
VNormSum(cam_pts, faces, i, k) ==
    IF k = 0 THEN <<0, 0, 0>>
    ELSE AddTimes(VNormSum(cam_pts, faces, i, k - 1), Uses(faces[k], i),
                  FaceNormal(cam_pts, faces[k]))

\* A vector divided by its length, or (0, 0, 1) for the zero vector.
UnitOrZAxis(v) == UnitOr(v, Length3(v))

VNorm(cam_pts, faces) ==
    [i \in DOMAIN cam_pts |-> UnitOrZAxis(VNormSum(cam_pts, faces, i, Len(faces)))]

\* ZBufferedGouraudRenderer.compute_intensity
ZGComputeIntensity(r, n) ==
    Clamp01(r.ambient + FMul(Max2(0, Dot3(n, r.light_dir)), ONE - r.ambient))

\* The three vertices _draw_triangle is called with for face f.
ZGTriangle(r, s, f) ==
    [j \in 1..3 |->
        Vertex(<<s.proj[f[j]][1], s.proj[f[j]][2]>>, s.proj[f[j]][3],
               ZGComputeIntensity(r, s.vnorm[f[j]]), <<0, 0, 0>>)]

PhTriangle(r, s, f) ==
    [j \in 1..3 |->
        Vertex(<<s.proj[f[j]][1], s.proj[f[j]][2]>>, s.proj[f[j]][3],
               0, s.vnorm[f[j]])]

\* if proj[i0] is None or proj[i1] is None or proj[i2] is None: continue
AnyNone(proj, f) == \E j \in 1..3 : proj[f[j]] = None

(***************************************************************************)
(* Sorting as list.sort does: stable, by a strict "comes before" order.    *)
(***************************************************************************)
\* B[i][j] says that element i comes before element j.  The place element
\* i takes: after the elements that come before it and after the earlier
\* elements it does not come before.
Rank(B, i) ==
    1 + Cardinality({j \in DOMAIN B : B[j][i] \/ (~B[i][j] /\ j < i)})

StableSort(s, B) ==
    [k \in DOMAIN s |-> s[CHOOSE i \in DOMAIN s : Rank(B, i) = k]]

\* Tuples of numbers compared as Python compares them.
RECURSIVE TupleLess(_, _)
TupleLess(a, b) ==
    IF a = <<>> THEN b # <<>>
    ELSE IF b = <<>> THEN FALSE
    ELSE IF Head(a) # Head(b) THEN Head(a) < Head(b)
    ELSE TupleLess(Tail(a), Tail(b))

\* (z0 + z1 + z2) / 3 of a face
CentroidDepth(cam_pts, f) ==
    FDiv(cam_pts[f[1]][3] + cam_pts[f[2]][3] + cam_pts[f[3]][3], 3 * ONE)

(***************************************************************************)
(* hidden_line_renderer.py                                                 *)
(***************************************************************************)
HiddenLineRenderer(camera, bg_color, light_dir, shade_levels, base_color, shade, wired) ==
    [kind |-> "hidden", camera |-> camera, bg_color |-> bg_color,
     light_dir |-> UnitOrZAxis(light_dir), shade_levels |-> shade_levels,
     base_color |-> base_color, shade |-> shade, wired |-> wired]

\* proj_pts: (-9999, -9999) stands for a point with z <= 0.
HlProj(cam, cam_pts) ==
    [i \in DOMAIN cam_pts |->
        IF cam_pts[i][3] <= 0 THEN <<-9999, -9999>> ELSE Project(cam, cam_pts[i])]

\* A face is left out of face_info when all its vertices have z <= 0 or when
\* its normal has length 0.
HlNormalLength(cam_pts, f) == Length3(FaceNormal(cam_pts, f))

HlKeeps(cam_pts, f) ==
    /\ ~(cam_pts[f[1]][3] <= 0 /\ cam_pts[f[2]][3] <= 0 /\ cam_pts[f[3]][3] <= 0)
    /\ HlNormalLength(cam_pts, f) # 0

\* The entry (depth, nz, intensity, (i0, i1, i2)) of face number i, whose
\* unit normal is u.
HlEntryOf(r, cam_pts, f, i, u) ==
    [depth |-> CentroidDepth(cam_pts, f), nz |-> u[3],
     intensity |-> FSqrt(Max2(0, Dot3(u, r.light_dir))),
     f |-> f, face |-> i]

HlEntry(r, cam_pts, faces, i) ==
    HlEntryOf(r, cam_pts, faces[i], i,
              Over3(FaceNormal(cam_pts, faces[i]), HlNormalLength(cam_pts, faces[i])))

\* The numbers of the faces kept, in mesh order.
HlKept(cam_pts, faces) ==
    SelectSeq([i \in DOMAIN faces |-> i], LAMBDA i : HlKeeps(cam_pts, faces[i]))

HlEntries(r, cam_pts, faces, kept) ==
    [k \in DOMAIN kept |-> HlEntry(r, cam_pts, faces, kept[k])]

\* face_info before the sort.
HlFaceInfo(r, cam_pts, faces) == HlEntries(r, cam_pts, faces, HlKept(cam_pts, faces))

\* face_info.sort(key=lambda x: x[0], reverse=True)
HlDrawnBefore(a, b) == a.depth > b.depth

HlSorted(s) ==
    StableSort(s, [i \in DOMAIN s |-> [j \in DOMAIN s |-> HlDrawnBefore(s[i], s[j])]])

\* The three outline calls of a face in ink c.
HlOutline(face, q, c) ==
    <<Call("line", face, <<q[1][1], q[1][2], q[2][1], q[2][2], c>>),
      Call("line", face, <<q[2][1], q[2][2], q[3][1], q[3][2], c>>),
      Call("line", face, <<q[3][1], q[3][2], q[1][1], q[1][2], c>>)>>

\* shade = base_color - int(intensity * shade_levels) within 0..15, or 7
HlShade(r, e) ==
    IF r.shade
    THEN Max2(0, Min2(15, r.base_color - IntOf(e.intensity * r.shade_levels)))
    ELSE 7

\* The calls step 5 issues for an entry of face_info with screen points q.
HlCalls(r, e, q) ==
    IF r.wired
    THEN HlOutline(e.face, q, IF e.nz <= 0 THEN 7 ELSE 1)
    ELSE <<Call("tri", e.face,
                <<q[1][1], q[1][2], q[2][1], q[2][2], q[3][1], q[3][2], HlShade(r, e)>>)>>
         \o (IF e.nz <= 0 THEN HlOutline(e.face, q, 0) ELSE <<>>)

HlDrawFace(r, proj_pts, e) == HlCalls(r, e, [j \in 1..3 |-> proj_pts[e.f[j]]])

(***************************************************************************)
(* gouraud_renderer.py                                                     *)
(***************************************************************************)
\* GouraudRenderer.__init__: the light direction is divided by its length.
GouraudRenderer(camera, light_dir, ambient) ==
    [kind |-> "gouraud", camera |-> camera, ambient |-> ambient,
     light_dir |-> Over3(light_dir, Length3(light_dir))]

\* GouraudRenderer.compute_intensity: min(1.0, ambient + dot * 0.8)
GrComputeIntensity(r, n) ==
    Min2(ONE, r.ambient + FMul(Max2(0, Dot3(n, r.light_dir)), Diffuse08))

\* proj_pts[i]: the whole screen coordinates, or None for z <= 0
GrProj(cam, cam_pts) ==
    [i \in DOMAIN cam_pts |->
        IF cam_pts[i][3] <= 0 THEN None ELSE Project(cam, cam_pts[i])]

\* face_list before the sort: (avgz, i0, i1, i2) for every face.
GrFaceList(cam_pts, faces) ==
    [i \in DOMAIN faces |->
        [key |-> <<CentroidDepth(cam_pts, faces[i]),
                   faces[i][1], faces[i][2], faces[i][3]>>,
         f |-> faces[i], face |-> i]]

\* face_list.sort() would draw the nearest face first.
GrDrawnBeforeAscending(a, b) == TupleLess(a.key, b.key)

\* face_list.sort(reverse=True)
GrDrawnBefore(a, b) == TupleLess(b.key, a.key)

GrSorted(s) ==
    StableSort(s, [i \in DOMAIN s |-> [j \in DOMAIN s |-> GrDrawnBefore(s[i], s[j])]])

\* backface culling: nz <= 0
GrCulled(cam_pts, f) == FaceNormal(cam_pts, f)[3] <= 0

\* interp(a, b, t)
Interp(a, b, t) == a + FMul(b - a, t)

\* (y - ya) / (yb - ya) if yb != ya else 0
Ratio(y, ya, yb) == IF yb # ya THEN FDiv(y - ya, yb - ya) ELSE 0

\* pts sorted by y; the pairs are (p, c) with p in whole pixels.
GrSortedByY(P) ==
    StableSort(P, [i \in DOMAIN P |-> [j \in DOMAIN P |-> P[i].p[2] < P[j].p[2]]])

\* The point (x, c) at t between vertices a and b.
GrAt(a, b, t) == <<Interp(a.p[1] * ONE, b.p[1] * ONE, t), Interp(a.c, b.c, t)>>

\* The point of scanline y on the edge from a to b.
GrOnEdge(a, b, y) == GrAt(a, b, Ratio(y, a.p[2], b.p[2]))

\* if xl > xr: swap the two ends
GrLeftFirst(long, short) == IF long[1] > short[1] THEN <<short, long>> ELSE <<long, short>>

\* The two ends (x, c) of scanline y, left end first: one on the long edge
\* and one on the short edge above or below y1.
GrSpan(S, y) ==
    GrLeftFirst(GrOnEdge(S[1], S[3], y),
                IF y < S[2].p[2] \/ S[2].p[2] = S[3].p[2]
                THEN GrOnEdge(S[1], S[2], y) ELSE GrOnEdge(S[2], S[3], y))

\* The pset at x of the span from (xl, cl) to (xr, cr).
GrPSet(face, x, y, l, r) ==
    Call("pset", face,
         <<x, y, IntOf(Interp(l[2], r[2],
                    IF r[1] # l[1] THEN FDiv(x * ONE - l[1], r[1] - l[1]) ELSE 0) * 7)>>)

\* The psets of a span from x_start to x_end.
GrRun(face, y, span, x_start, x_end) ==
    [k \in 1..(IF x_end >= x_start THEN x_end - x_start + 1 ELSE 0) |->
        GrPSet(face, x_start + k - 1, y, span[1], span[2])]

GrSpanCalls(face, y, span) ==
    GrRun(face, y, span, CeilOf(span[1][1]), FloorOf(span[2][1]))

\* The pset calls of scanline y.
GrLine(S, face, y) == GrSpanCalls(face, y, GrSpan(S, y))

\* draw_gouraud_tri: the pset calls of the scanlines y0 .. y2.
RECURSIVE GrLines(_, _, _, _)
GrLines(S, face, y, y_end) ==
    IF y > y_end THEN <<>>
    ELSE GrLine(S, face, y) \o GrLines(S, face, y + 1, y_end)

GrScan(face, S) == GrLines(S, face, S[1].p[2], S[3].p[2])

DrawGouraudTri(face, P) == GrScan(face, GrSortedByY(P))

\* The (p, c) pairs draw_gouraud_tri is called with for face f.
GrTriangle(r, s, f) ==
    [j \in 1..3 |-> [p |-> s.proj[f[j]],
                     c |-> GrComputeIntensity(r, s.mesh.vertex_normals[f[j]])]]

(***************************************************************************)
(* Frames: Wireframe.draw (cls, then draw_mesh of the renderer chosen in   *)
(* Wireframe.__init__), face by face, and the renderer's clear_zbuffer.    *)
(***************************************************************************)
\* The frames of a behaviour and the side of the square screen, in pixels.
MaxFrames == 2
MeshScreen == 8

ZBuffered(r) == r.kind \in {"zgouraud", "phong"}

\* The state before the first frame.
SceneStart(r, mesh) ==
    [r |-> r, mesh |-> mesh, calls |-> <<>>, pc |-> "idle", frame |-> 0,
     cam_pts |-> <<>>, proj |-> <<>>, vnorm |-> <<>>, order |-> <<>>, k |-> 1,
     drawn |-> <<>>,        \* the faces the current frame has drawn, in order
     cleared |-> FALSE,     \* the current frame began with every depth at z_far
     renders |-> 0,         \* the frames completed that began so
     shots |-> {}]          \* the pset calls of each of those frames

\* The faces in mesh order, for the renderers that do not sort.
InMeshOrder(faces) == [i \in DOMAIN faces |-> [f |-> faces[i], face |-> i]]

\* draw_mesh up to its drawing loop: the projected points ...
ProjFor(r, cam_pts) ==
    CASE r.kind = "hidden" -> HlProj(r.camera, cam_pts)
      [] r.kind = "gouraud" -> GrProj(r.camera, cam_pts)
      [] OTHER -> ProjOrNone(r.camera, cam_pts)

\* ... and the list of faces the loop walks.
OrderFor(r, cam_pts, faces) ==
    CASE r.kind = "hidden" -> HlSorted(HlFaceInfo(r, cam_pts, faces))
      [] r.kind = "gouraud" -> GrSorted(GrFaceList(cam_pts, faces))
      [] OTHER -> InMeshOrder(faces)

ZBufIsClear(r) == \A y \in DOMAIN r.zbuf : \A x \in DOMAIN r.zbuf[y] : r.zbuf[y][x] = r.z_far

\* pyxel.cls(0) and draw_mesh up to its drawing loop.  The depth buffer is
\* left as it is: draw_mesh does not clear it and the call of clear_zbuffer
\* in Wireframe.draw is commented out.
FrameBegin ==
    /\ scene.pc = "idle" /\ scene.frame < MaxFrames
    /\ LET cam_pts == CamPts(scene.r.camera, scene.mesh)
       IN  scene' = [scene EXCEPT
                !.pc = "faces", !.calls = <<Call("cls", 0, <<0>>)>>,
                !.cam_pts = cam_pts,
                !.proj = ProjFor(scene.r, cam_pts),
                !.vnorm = IF ZBuffered(scene.r)
                          THEN VNorm(cam_pts, scene.mesh.faces) ELSE <<>>,
                !.order = OrderFor(scene.r, cam_pts, scene.mesh.faces),
                !.k = 1, !.drawn = <<>>,
                !.cleared = ZBuffered(scene.r) /\ ZBufIsClear(scene.r)]
    /\ UNCHANGED <<clip, wire, ctor, pair>>

\* clear_zbuffer, called between frames.
ClearZBuffer ==
    /\ scene.pc = "idle" /\ scene.frame < MaxFrames /\ ZBuffered(scene.r)
    /\ scene' = [scene EXCEPT !.r.zbuf = NewZBuf(scene.r.width, scene.r.height)]
    /\ UNCHANGED <<clip, wire, ctor, pair>>

\* The loop of draw_mesh is at entry k of its face list.
AtFace(kind) ==
    scene.pc = "faces" /\ scene.r.kind = kind /\ scene.k <= Len(scene.order)

ThisFace == scene.order[scene.k]

HlDraw ==
    /\ AtFace("hidden")
    /\ scene' = [scene EXCEPT
            !.calls = scene.calls \o HlDrawFace(scene.r, scene.proj, ThisFace),
            !.drawn = Append(scene.drawn, ThisFace.face), !.k = scene.k + 1]
    /\ UNCHANGED <<clip, wire, ctor, pair>>

GrSkip ==
    /\ AtFace("gouraud")
    /\ AnyNone(scene.proj, ThisFace.f) \/ GrCulled(scene.cam_pts, ThisFace.f)
    /\ scene' = [scene EXCEPT !.k = scene.k + 1]
    /\ UNCHANGED <<clip, wire, ctor, pair>>

GrDraw ==
    /\ AtFace("gouraud")
    /\ ~AnyNone(scene.proj, ThisFace.f) /\ ~GrCulled(scene.cam_pts, ThisFace.f)
    /\ scene' = [scene EXCEPT
            !.calls = scene.calls
                \o DrawGouraudTri(ThisFace.face, GrTriangle(scene.r, scene, ThisFace.f)),
            !.drawn = Append(scene.drawn, ThisFace.face), !.k = scene.k + 1]
    /\ UNCHANGED <<clip, wire, ctor, pair>>

ZGSkip ==
    /\ AtFace("zgouraud") /\ AnyNone(scene.proj, ThisFace.f)
    /\ scene' = [scene EXCEPT !.k = scene.k + 1]
    /\ UNCHANGED <<clip, wire, ctor, pair>>

ZGDraw ==
    /\ AtFace("zgouraud") /\ ~AnyNone(scene.proj, ThisFace.f)
    /\ LET d == ZGDrawTriangle(scene.r, scene.calls, ThisFace.face,
                               ZGTriangle(scene.r, scene, ThisFace.f))
       IN  scene' = [scene EXCEPT !.r = d.r, !.calls = d.calls,
                !.drawn = Append(scene.drawn, ThisFace.face), !.k = scene.k + 1]
    /\ UNCHANGED <<clip, wire, ctor, pair>>

PhSkip ==
    /\ AtFace("phong") /\ AnyNone(scene.proj, ThisFace.f)
    /\ scene' = [scene EXCEPT !.k = scene.k + 1]
    /\ UNCHANGED <<clip, wire, ctor, pair>>

PhDraw ==
    /\ AtFace("phong") /\ ~AnyNone(scene.proj, ThisFace.f)
    /\ LET d == PhDrawTriangle(scene.r, scene.calls, ThisFace.face,
                               PhTriangle(scene.r, scene, ThisFace.f))
       IN  scene' = [scene EXCEPT !.r = d.r, !.calls = d.calls,
                !.drawn = Append(scene.drawn, ThisFace.face), !.k = scene.k + 1]
    /\ UNCHANGED <<clip, wire, ctor, pair>>

\* The pset calls of a call log.
PSets(calls) == SelectSeq(calls, LAMBDA c : c.op = "pset")

\* draw_mesh returns and Wireframe.draw ends with its FPS overlay, whose
\* bar is as long as the frame's measured load.
FrameEnd ==
    /\ scene.pc = "faces" /\ scene.k > Len(scene.order)
    /\ \E util_percent \in {0, 100} :
        scene' = [scene EXCEPT
            !.pc = "idle", !.frame = scene.frame + 1,
            !.calls = scene.calls \o
                <<Call("text", 0, <<5, 5, 7>>), Call("text", 0, <<5, 15, 7>>),
                  Call("rect", 0, <<5, 25, util_percent, 5, 8>>)>>,
            !.renders = IF scene.cleared THEN scene.renders + 1 ELSE scene.renders,
            !.shots = IF scene.cleared THEN scene.shots \cup {PSets(scene.calls)}
                      ELSE scene.shots]
    /\ UNCHANGED <<clip, wire, ctor, pair>>

(***************************************************************************)
(* Specification SpecMesh: frames of one renderer and one mesh.            *)
(***************************************************************************)
\* The camera: the demo's (60 degrees, aspect 1) one unit behind the origin,
\* on a small screen.
MeshCamera == Camera(0, 0, 0, 0, 0, -ONE, 60, ONE, MeshScreen, MeshScreen, 6 * ONE)

\* The depths tried for a vertex: camera-space z of -1/2 (behind the
\* camera), 1/2 and 1.
MeshZ == {k * HALF : k \in {-3, -1, 0}}

\* Two triangles over the same part of the screen.  The first has its third
\* vertex at its own depth; the second is wound either way.
MeshOf(za, zc, zb, flip) ==
    Mesh(<<<<-HALF, -HALF, za>>, <<HALF, -HALF, za>>, <<0, HALF, zc>>,
           <<-HALF, -HALF, zb>>, <<HALF, -HALF, zb>>, <<0, HALF, zb>>>>,
         <<>>,
         <<<<1, 2, 3>>, IF flip THEN <<5, 4, 6>> ELSE <<4, 5, 6>>>>,
         0, 0, 0, 0, 0, 0, ONE)

\* The base of the first triangle is in front of the camera.
MeshZFront == {z \in MeshZ : z > -ONE}

Meshes ==
    {MeshOf(za, zc, zb, flip) : za \in MeshZFront, zc \in MeshZ, zb \in MeshZ, flip \in BOOLEAN}

\* The renderers the demo offers (wireframe.py, Wireframe.__init__).
Renderers ==
    {HiddenLineRenderer(MeshCamera, 0, <<0, 0, -ONE>>, 5, 7, t[1], t[2]) :
        t \in {<<FALSE, FALSE>>, <<TRUE, FALSE>>, <<FALSE, TRUE>>}}
    \cup {GouraudRenderer(MeshCamera, <<ONE, -ONE, -ONE>>, Ambient02)}
    \cup {ZBufferedGouraudRenderer(MeshCamera, l, Ambient02, 8) :
            l \in {<<ONE, -ONE, -ONE>>, <<ONE, -ONE, ONE>>}}
    \cup {PhongRenderer(MeshCamera, l, Ambient02, Diffuse08, Specular04, 32, 16, TRUE, FALSE) :
            l \in {<<ONE, -ONE, -ONE>>, <<ONE, -ONE, ONE>>}}
    \cup {PhongRenderer(MeshCamera, <<ONE, -ONE, -ONE>>, Ambient02, Diffuse08, Specular04,
                        32, 16, FALSE, FALSE)}

InitMesh ==
    /\ clip = Unused
    /\ wire = Unused
    /\ ctor = Unused
    /\ pair = Unused
    /\ \E r \in Renderers, mesh \in Meshes : scene = SceneStart(r, mesh)

NextMesh ==
    \/ FrameBegin
    \/ ClearZBuffer
    \/ HlDraw
    \/ GrSkip
    \/ GrDraw
    \/ ZGSkip
    \/ ZGDraw
    \/ PhSkip
    \/ PhDraw
    \/ FrameEnd

SpecMesh == InitMesh /\ [][NextMesh]_vars

(***************************************************************************)
(* Specification SpecOrder: two triangles A and B are drawn by             *)
(* _draw_triangle into two copies of a freshly constructed z-buffered      *)
(* renderer, A then B into copy a and B then A into copy b.                *)
(***************************************************************************)
\* _draw_triangle of the renderer's class.
DrawTriangle(r, calls, face, T) ==
    IF r.kind = "zgouraud" THEN ZGDrawTriangle(r, calls, face, T)
    ELSE PhDrawTriangle(r, calls, face, T)

\* Screen triangles, in pixels: two large ones, a small one and one that
\* leaves the surface.
PairShapes ==
    {<<<<1, 1>>, <<7, 1>>, <<4, 7>>>>, <<<<0, 0>>, <<8, 0>>, <<0, 8>>>>,
     <<<<3, 2>>, <<3, 6>>, <<6, 4>>>>, <<<<-2, 3>>, <<5, -1>>, <<9, 9>>>>}

\* The depths of the three vertices, in units: level or sloping.
PairDepths == {<<1, 1, 1>>, <<2, 2, 2>>, <<1, 2, 3>>, <<3, 1, 2>>}

\* A triangle of shape s and depths d whose vertices all have intensity c
\* and normal n.
PairTriangle(s, d, c, n) ==
    [j \in 1..3 |-> Vertex(<<s[j][1] * ONE, s[j][2] * ONE>>, d[j] * ONE, c, n)]

PairRenderers ==
    {ZBufferedGouraudRenderer(MeshCamera, <<ONE, -ONE, ONE>>, Ambient02, 8)}
    \cup {PhongRenderer(MeshCamera, <<ONE, -ONE, ONE>>, Ambient02, Diffuse08,
                        Specular04, 32, 16, d, FALSE) : d \in BOOLEAN}

InitOrder ==
    /\ clip = Unused
    /\ wire = Unused
    /\ ctor = Unused
    /\ scene = Unused
    /\ \E r \in PairRenderers, sa \in PairShapes, da \in PairDepths,
          sb \in PairShapes, db \in PairDepths :
        pair = [A |-> PairTriangle(sa, da, ONE, <<0, 0, ONE>>),
                B |-> PairTriangle(sb, db, HALF, <<0, 0, -ONE>>),
                a |-> [r |-> r, calls |-> <<>>],
                b |-> [r |-> r, calls |-> <<>>],
                pc |-> "start"]

\* Copy a draws A (tagged 1) while copy b draws B (tagged 2) ...
PairDrawFirst ==
    /\ pair.pc = "start"
    /\ pair' = [pair EXCEPT
            !.a = DrawTriangle(pair.a.r, pair.a.calls, 1, pair.A),
            !.b = DrawTriangle(pair.b.r, pair.b.calls, 2, pair.B),
            !.pc = "first"]
    /\ UNCHANGED <<clip, wire, ctor, scene>>

\* ... and then a draws B while b draws A.
PairDrawSecond ==
    /\ pair.pc = "first"
    /\ pair' = [pair EXCEPT
            !.a = DrawTriangle(pair.a.r, pair.a.calls, 2, pair.B),
            !.b = DrawTriangle(pair.b.r, pair.b.calls, 1, pair.A),
            !.pc = "done"]
    /\ UNCHANGED <<clip, wire, ctor, scene>>

NextOrder == PairDrawFirst \/ PairDrawSecond

SpecOrder == InitOrder /\ [][NextOrder]_vars

\* Triangle T has a fragment at pixel (x, y).
Covers(T, x, y) == Denom(T) # 0 /\ FragmentCovers(Fragment(T, x, y))

SurfacePixels(r) == {<<x, y>> \in (0..(r.width - 1)) \X (0..(r.height - 1)) : TRUE}

\* A is the near triangle: nearer than B at every pixel both cover.
Nearer(r, A, B) ==
    \A q \in SurfacePixels(r) :
        Covers(A, q[1], q[2]) /\ Covers(B, q[1], q[2])
            => Fragment(A, q[1], q[2]).z < Fragment(B, q[1], q[2]).z

\* C1: from a cleared depth buffer, drawing the near triangle A and then the
\* far triangle B leaves the same depth buffer and the same colour at every
\* pixel as drawing B and then A.
C1_DepthOrderCommutes ==
    pair.pc = "done" /\ Nearer(pair.a.r, pair.A, pair.B) =>
        /\ pair.a.r.zbuf = pair.b.r.zbuf
        /\ \A q \in SurfacePixels(pair.a.r) :
                PixelOf(pair.a.calls, q[1], q[2]) = PixelOf(pair.b.calls, q[1], q[2])

\* Both orders were drawn, A is nearer, and at some pixel copy b wrote B's
\* shade and then A's different shade over it.
C1_Witness ==
    /\ pair.pc = "done" /\ Nearer(pair.a.r, pair.A, pair.B)
    /\ \E i, j \in DOMAIN pair.b.calls :
        /\ i < j
        /\ pair.b.calls[i].face = 2 /\ pair.b.calls[j].face = 1
        /\ pair.b.calls[i].args[1] = pair.b.calls[j].args[1]
        /\ pair.b.calls[i].args[2] = pair.b.calls[j].args[2]
        /\ pair.b.calls[i].args[3] # pair.b.calls[j].args[3]

\* Without "A is nearer" the order matters: where two fragments have the
\* same depth the first one drawn stays.
OrderNeverMatters ==
    pair.pc = "done" =>
        \A q \in SurfacePixels(pair.a.r) :
            PixelOf(pair.a.calls, q[1], q[2]) = PixelOf(pair.b.calls, q[1], q[2])

(***************************************************************************)
(* Properties of the frames of SpecMesh.                                   *)
(***************************************************************************)
\* Face number i of the mesh has a vertex at or behind the camera plane.
HasVertexBehind(i) ==
    \E j \in 1..3 : scene.cam_pts[scene.mesh.faces[i][j]][3] <= 0

\* C6: a face with at least one vertex whose camera-space z is <= 0 is left
\* out of the frame: no fill-triangle, draw-line or set-pixel call is issued
\* for it, by any of the four face-based renderers.
C6_FaceBehindNotDrawn ==
    \A i \in DOMAIN scene.calls :
        scene.calls[i].face # 0 => ~HasVertexBehind(scene.calls[i].face)

\* The three renderers that test each projected point do leave such a face
\* out; HiddenLineRenderer leaves it out only when all three vertices are
\* behind.
OthersLeaveFaceBehindOut ==
    scene.r.kind # "hidden" => C6_FaceBehindNotDrawn

\* C7: for the z-buffered renderers, every depth-buffer entry is z_far when
\* draw_mesh comes to the first triangle of a frame, in every frame.
C7_ZBufClearAtFrameStart ==
    ZBuffered(scene.r) /\ scene.pc = "faces" /\ scene.k = 1 => ZBufIsClear(scene.r)

\* The depth of face number i as the painter's renderers order it.
DepthOfFace(i) == CentroidDepth(scene.cam_pts, scene.mesh.faces[i])

\* C9: in HiddenLineRenderer.draw_mesh and GouraudRenderer.draw_mesh a face
\* drawn before another within one draw_mesh call has a centroid depth at
\* least as large: farther faces first, nearer faces after them.
C9_PainterFarthestFirst ==
    scene.r.kind \in {"hidden", "gouraud"} =>
        \A i, j \in DOMAIN scene.drawn :
            i < j => DepthOfFace(scene.drawn[i]) >= DepthOfFace(scene.drawn[j])

\* GouraudRenderer drew the second face of the mesh, the farther one, and
\* then the first.
C9_Witness ==
    /\ scene.r.kind = "gouraud"
    /\ scene.drawn = <<2, 1>>
    /\ DepthOfFace(2) > DepthOfFace(1)

\* HiddenLineRenderer did the same.
C9_WitnessHidden ==
    /\ scene.r.kind = "hidden"
    /\ scene.drawn = <<2, 1>>
    /\ DepthOfFace(2) > DepthOfFace(1)

CubeDirs == {<<a * ONE, b * ONE, c * ONE>> : a \in -1..1, b \in -1..1, c \in -1..1}

InitLight ==
    /\ clip = Unused
    /\ wire = Unused
    /\ scene = Unused
    /\ pair = Unused
    /\ ctor = [pc |-> "camera", camera |-> MeshCamera]

\* The state after a constructor returned the renderer r for light_dir.
Constructed(light_dir, r) ==
    [ctor EXCEPT !.pc = "renderer"] @@ [light_dir |-> light_dir, renderer |-> r]

\* HiddenLineRenderer.__init__: self.light_dir = normalize(light_dir)
LightHiddenLine ==
    /\ ctor.pc = "camera"
    /\ \E light_dir \in CubeDirs :
        ctor' = Constructed(light_dir,
                    HiddenLineRenderer(ctor.camera, 0, light_dir, 5, 7, FALSE, FALSE))
    /\ UNCHANGED <<clip, wire, scene, pair>>

\* GouraudRenderer.__init__ with L # 0 ...
LightGouraud ==
    /\ ctor.pc = "camera"
    /\ \E light_dir \in CubeDirs :
        /\ Length3(light_dir) # 0
        /\ ctor' = Constructed(light_dir, GouraudRenderer(ctor.camera, light_dir, Ambient02))
    /\ UNCHANGED <<clip, wire, scene, pair>>

\* ... and with L = 0: lx / L raises ZeroDivisionError.
LightGouraudRaise ==
    /\ ctor.pc = "camera"
    /\ \E light_dir \in CubeDirs :
        /\ Length3(light_dir) = 0
        /\ ctor' = [ctor EXCEPT !.pc = "raised"] @@
                   [light_dir |-> light_dir, error |-> "ZeroDivisionError"]
    /\ UNCHANGED <<clip, wire, scene, pair>>

\* ZBufferedGouraudRenderer.__init__: L = sqrt(..) or 1.0
LightZGouraud ==
    /\ ctor.pc = "camera"
    /\ \E light_dir \in CubeDirs :
        ctor' = Constructed(light_dir,
                    ZBufferedGouraudRenderer(ctor.camera, light_dir, Ambient02, 8))
    /\ UNCHANGED <<clip, wire, scene, pair>>

\* PhongRenderer.__init__: L = sqrt(..) or 1.0
LightPhong ==
    /\ ctor.pc = "camera"
    /\ \E light_dir \in CubeDirs, dithering \in BOOLEAN :
        ctor' = Constructed(light_dir,
                    PhongRenderer(ctor.camera, light_dir, Ambient02, Diffuse08,
                                  Specular04, 32, 16, dithering, FALSE))
    /\ UNCHANGED <<clip, wire, scene, pair>>

NextLight ==
    \/ LightHiddenLine
    \/ LightGouraud
    \/ LightGouraudRaise
    \/ LightZGouraud
    \/ LightPhong

SpecLight == InitLight /\ [][NextLight]_vars

\* The unit vectors along the axes.
CanonicalAxes ==
    {<<ONE, 0, 0>>, <<-ONE, 0, 0>>, <<0, ONE, 0>>, <<0, -ONE, 0>>, <<0, 0, ONE>>, <<0, 0, -ONE>>}

ZeroLight == ctor.pc # "camera" /\ ctor.light_dir = <<0, 0, 0>>

\* C11: constructing a shaded renderer with the light direction (0, 0, 0)
\* raises no division-by-zero error, and the light direction stored is a
\* canonical axis.
C11_ZeroLightDefaulted ==
    ZeroLight => ctor.pc = "renderer" /\ ctor.renderer.light_dir \in CanonicalAxes

\* What holds: only GouraudRenderer raises, HiddenLineRenderer stores
\* (0, 0, 1), and the two z-buffered renderers store (0, 0, 0).
ZeroLightOutcomes ==
    ZeroLight =>
        IF ctor.pc = "raised" THEN ctor.error = "ZeroDivisionError"
        ELSE IF ctor.renderer.kind = "hidden" THEN ctor.renderer.light_dir = <<0, 0, ONE>>
        ELSE ctor.renderer.kind \in {"zgouraud", "phong"}
                /\ ctor.renderer.light_dir = <<0, 0, 0>>

\* A light direction of non-zero length is stored with length 1, up to
\* rounding, by all four.
NonZeroLightIsUnit ==
    ctor.pc = "renderer" /\ ctor.light_dir # <<0, 0, 0>> =>
        Abs(Length3(ctor.renderer.light_dir) - ONE) <= 2

(***************************************************************************)
(* Specification SpecTri: ZBufferedGouraudRenderer with light (0, 0, -1),  *)
(* ambient 0.2 and 16 shade levels draws a mesh of one triangle whose      *)
(* vertices are all at camera-space depth 2.                               *)
(***************************************************************************)
\* The camera two units behind the plane z = 0 of the triangle.
TriCamera == Camera(0, 0, 0, 0, 0, -2 * ONE, 60, ONE, MeshScreen, MeshScreen, 12 * ONE)

\* The vertices: the points of a 3 x 3 grid of half units in the plane.
TriGrid == {<<a * HALF, b * HALF, 0>> : a \in -1..1, b \in -1..1}

\* (v1 - v0) x (v2 - v0) has a z component other than 0.
TriProper(v0, v1, v2) ==
    (v1[1] - v0[1]) * (v2[2] - v0[2]) # (v1[2] - v0[2]) * (v2[1] - v0[1])

\* One triangle from the lower left corner of the grid, wound either way.
TriMeshes ==
    {Mesh(<<<<-HALF, -HALF, 0>>, t[1], t[2]>>, <<>>, <<<<1, 2, 3>>>>, 0, 0, 0, 0, 0, 0, ONE) :
        t \in {u \in TriGrid \X TriGrid : TriProper(<<-HALF, -HALF, 0>>, u[1], u[2])}}

InitTri ==
    /\ clip = Unused
    /\ wire = Unused
    /\ ctor = Unused
    /\ pair = Unused
    /\ \E mesh \in TriMeshes :
        scene = SceneStart(ZBufferedGouraudRenderer(TriCamera, <<0, 0, -ONE>>, Ambient02, 16),
                           mesh)

NextTri ==
    \/ FrameBegin
    \/ ZGDraw
    \/ FrameEnd

SpecTri == InitTri /\ [][NextTri]_vars

\* The pixel that holds the centroid of the projected face f.
CentroidPixel(proj, f) ==
    <<(proj[f[1]][1] + proj[f[2]][1] + proj[f[3]][1]) \div (3 * ONE),
      (proj[f[1]][2] + proj[f[2]][2] + proj[f[3]][2]) \div (3 * ONE)>>

\* The shades the frame has set pixel q to.
ShadesAt(calls, q) ==
    {calls[i].args[3] : i \in {j \in DOMAIN calls :
        calls[j].op = "pset" /\ calls[j].args[1] = q[1] /\ calls[j].args[2] = q[2]}}

\* The first frame has drawn the triangle, whose normal has the z component
\* of a front-facing face (nz > 0) ...
TriFrontDrawn ==
    /\ scene.frame = 0 /\ scene.drawn = <<1>>
    /\ FaceNormal(scene.cam_pts, scene.mesh.faces[1])[3] > 0

\* ... or of a face wound the other way.
TriBackDrawn ==
    /\ scene.frame = 0 /\ scene.drawn = <<1>>
    /\ FaceNormal(scene.cam_pts, scene.mesh.faces[1])[3] < 0

TriCentroidShades == ShadesAt(scene.calls, CentroidPixel(scene.proj, scene.mesh.faces[1]))

\* C12: with light (0, 0, -1), ambient 0.2 and 16 levels, the pixel holding
\* the centroid of a front-facing triangle at depth 2 is set to shade 15.
C12_CentroidShade15 ==
    TriFrontDrawn => TriCentroidShades \subseteq {15}

\* What the front-facing triangle gets is the ambient shade, int(0.2 * 15);
\* it is the triangle wound the other way that gets 15 (give or take the
\* rounding of the interpolation).
TriShadesByWinding ==
    /\ TriFrontDrawn => TriCentroidShades \subseteq {2, 3}
    /\ TriBackDrawn => TriCentroidShades \subseteq {14, 15}

(***************************************************************************)
(* Specification SpecProject: Camera.project is called with a point in     *)
(* front of the camera.                                                    *)
(***************************************************************************)
\* Camera-space points: x and y in quarter units, z > 0 in half units.
ProjectPoints ==
    {<<a * (HALF \div 2), b * (HALF \div 2), c * HALF>> :
        a \in -9..9, b \in {-3, 0, 1}, c \in 1..MaxDepth + 1}

\* Cameras of an 8 x 8 screen with scale 3 and scale 2.
ProjectCameras ==
    {Camera(0, 0, 0, 0, 0, 0, 60, ONE, 8, 8, s * ONE) : s \in {2, 3}}

InitProject ==
    /\ clip = Unused
    /\ ctor = Unused
    /\ scene = Unused
    /\ pair = Unused
    /\ \E cam \in ProjectCameras, p \in ProjectPoints :
        wire = [pc |-> "call", cam |-> cam, p |-> p]

\* sx, sy = cam.project(x, y, z)
ProjectCall ==
    /\ wire.pc = "call"
    /\ ~ProjectRaises(wire.p)
    /\ wire' = [wire EXCEPT !.pc = "returned"] @@ [s |-> Project(wire.cam, wire.p)]
    /\ UNCHANGED <<clip, ctor, scene, pair>>

NextProject == ProjectCall

SpecProject == InitProject /\ [][NextProject]_vars

\* The real-valued screen coordinates cx + (x/z) * scale, cy - (y/z) * scale.
ScreenX(cam, p) == cam.cx * ONE + FMul(FDiv(p[1], p[3]), cam.scale)
ScreenY(cam, p) == cam.cy * ONE - FMul(FDiv(p[2], p[3]), cam.scale)

\* n is a nearest integer to v (either one at a tie).
IsNearest(n, v) == 2 * Abs(n * ONE - v) <= ONE

\* C13: for z > 0, project returns the integers nearest to
\* cx + (x/z) * scale and cy - (y/z) * scale.
C13_ProjectRounds ==
    wire.pc = "returned" =>
        /\ IsNearest(wire.s[1], ScreenX(wire.cam, wire.p))
        /\ IsNearest(wire.s[2], ScreenY(wire.cam, wire.p))

\* n is v with its fraction dropped: towards 0.
IsTruncated(n, v) ==
    /\ Abs(n * ONE) <= Abs(v) /\ Abs(v) - Abs(n * ONE) < ONE
    /\ n # 0 => Sgn(n) = Sgn(v)

\* What holds: int() drops the fraction, so a coordinate is rounded down
\* right of (below) the origin of the screen and up left of (above) it.
ProjectTruncates ==
    wire.pc = "returned" =>
        /\ IsTruncated(wire.s[1], ScreenX(wire.cam, wire.p))
        /\ IsTruncated(wire.s[2], ScreenY(wire.cam, wire.p))

(***************************************************************************)
(* Specification SpecSphere: wireframe.py, generate_sphere_mesh_with_faces *)
(* run loop by loop.  The step counts tried keep every angle a multiple of *)
(* 90 degrees.                                                             *)
(***************************************************************************)
SphereLatSteps == {1, 2}
SphereLonSteps == {1, 2, 4}
SphereRadii == {HALF, ONE, 2 * ONE}

\* The call: points = [], faces = [], and the first loop at lat = 0, lon = 0.
SphereStart(radius, lat_steps, lon_steps) ==
    [pc |-> "points", radius |-> radius, lat_steps |-> lat_steps,
     lon_steps |-> lon_steps, lat |-> 0, lon |-> 0, points |-> <<>>, faces |-> <<>>]

InitSphere ==
    /\ clip = Unused
    /\ wire = Unused
    /\ scene = Unused
    /\ pair = Unused
    /\ \E radius \in SphereRadii, lat_steps \in SphereLatSteps, lon_steps \in SphereLonSteps :
        ctor = SphereStart(radius, lat_steps, lon_steps)

\* The point of latitude theta and longitude phi, in degrees.
SpherePointAt(radius, theta, phi) ==
    <<FMul(FMul(radius, SinDeg(theta)), CosDeg(phi)),
      FMul(radius, CosDeg(theta)),
      FMul(FMul(radius, SinDeg(theta)), SinDeg(phi))>>

\* The loop variables after the body ran at (lat, lon); the outer loop ends
\* with lat = last + 1.
SphereAdvance(g) ==
    IF g.lon + 1 < g.lon_steps THEN [g EXCEPT !.lon = g.lon + 1]
    ELSE [g EXCEPT !.lat = g.lat + 1, !.lon = 0]

\* One pass of the body of the vertex loops, lat in 0..lat_steps.
SpherePoint ==
    /\ ctor.pc = "points" /\ ctor.lat <= ctor.lat_steps
    /\ ctor' = SphereAdvance([ctor EXCEPT !.points = Append(ctor.points,
                    SpherePointAt(ctor.radius, (180 * ctor.lat) \div ctor.lat_steps,
                                  (360 * ctor.lon) \div ctor.lon_steps))])
    /\ UNCHANGED <<clip, wire, scene, pair>>

\* The vertex loops are done; the face loops start.
SphereFacesBegin ==
    /\ ctor.pc = "points" /\ ctor.lat > ctor.lat_steps
    /\ ctor' = [ctor EXCEPT !.pc = "faces", !.lat = 0, !.lon = 0]
    /\ UNCHANGED <<clip, wire, scene, pair>>

\* idx(lat, lon) = lat * lon_steps + (lon % lon_steps)
SphereIdx(g, lat, lon) == lat * g.lon_steps + (lon % g.lon_steps)

\* One pass of the body of the face loops, lat in 0..lat_steps-1: the quad
\* at (lat, lon) as the two triangles (i0, i1, i2) and (i2, i1, i3).
SphereQuad ==
    /\ ctor.pc = "faces" /\ ctor.lat < ctor.lat_steps
    /\ ctor' = SphereAdvance([ctor EXCEPT !.faces = ctor.faces \o
            <<<<SphereIdx(ctor, ctor.lat, ctor.lon),
                SphereIdx(ctor, ctor.lat + 1, ctor.lon),
                SphereIdx(ctor, ctor.lat, ctor.lon + 1)>>,
              <<SphereIdx(ctor, ctor.lat, ctor.lon + 1),
                SphereIdx(ctor, ctor.lat + 1, ctor.lon),
                SphereIdx(ctor, ctor.lat + 1, ctor.lon + 1)>>>>])
    /\ UNCHANGED <<clip, wire, scene, pair>>

\* return points, faces
SphereReturn ==
    /\ ctor.pc = "faces" /\ ctor.lat >= ctor.lat_steps
    /\ ctor' = [ctor EXCEPT !.pc = "done"]
    /\ UNCHANGED <<clip, wire, scene, pair>>

NextSphere ==
    \/ SpherePoint
    \/ SphereFacesBegin
    \/ SphereQuad
    \/ SphereReturn

SpecSphere == InitSphere /\ [][NextSphere]_vars

\* Every index of every face is an index into points (counted from 0).
SphereIndicesValid ==
    \A i \in DOMAIN ctor.faces : \A j \in 1..3 :
        ctor.faces[i][j] \in 0..(Len(ctor.points) - 1)

\* C14: the mesh returned has (lat_steps + 1) * lon_steps vertices and 2
\* triangles per latitude band (2 faces for lat_steps = 1, lon_steps = 4),
\* and every face index is a valid index into the points.
C14_SphereTwoFacesPerBand ==
    ctor.pc = "done" =>
        /\ Len(ctor.points) = (ctor.lat_steps + 1) * ctor.lon_steps
        /\ Len(ctor.faces) = 2 * ctor.lat_steps
        /\ SphereIndicesValid

\* What holds: the vertex count and the indices are as said, and there are 2
\* triangles per quad, 2 * lon_steps per band.
SphereTwoFacesPerQuad ==
    ctor.pc = "done" =>
        /\ Len(ctor.points) = (ctor.lat_steps + 1) * ctor.lon_steps
        /\ Len(ctor.faces) = 2 * ctor.lat_steps * ctor.lon_steps
        /\ SphereIndicesValid

\* The scenario of one latitude step and four longitude steps returns 8 faces.
SphereOneByFourHasEight ==
    ctor.pc = "done" /\ ctor.lat_steps = 1 /\ ctor.lon_steps = 4 => Len(ctor.faces) = 8

(***************************************************************************)
(* The depth buffer of the two copies of SpecOrder.                        *)
(***************************************************************************)
\* The triangles copy a and copy b have drawn so far.
DrawnByA == IF pair.pc = "start" THEN {} ELSE IF pair.pc = "first" THEN {pair.A} ELSE {pair.A, pair.B}
DrawnByB == IF pair.pc = "start" THEN {} ELSE IF pair.pc = "first" THEN {pair.B} ELSE {pair.A, pair.B}

\* The depths of the fragments of the triangles Ts that cover pixel (x, y),
\* and z_far.
DepthsAt(Ts, x, y, z_far) ==
    {Fragment(T, x, y).z : T \in {U \in Ts : Covers(U, x, y)}} \cup {z_far}

SetMin(S) == CHOOSE m \in S : \A n \in S : m <= n

\* Every entry of copy c is the least depth of the fragments that covered
\* its pixel, or z_far where none did.
EntriesAreNearest(c, Ts) ==
    \A q \in SurfacePixels(c.r) :
        c.r.zbuf[q[2]][q[1]] = SetMin(DepthsAt(Ts, q[1], q[2], c.r.z_far))

\* Fragment f fails the weight test, the z <= 0 test or the depth test.
IsRejected(f, stored) ==
    f.w0 < 0 \/ f.w1 < 0 \/ f.w2 < 0 \/ f.z <= 0 \/ f.z >= stored

\* No call from number n on sets pixel q.
NoPSetFrom(calls, n, q) ==
    \A i \in n..Len(calls) :
        ~(calls[i].op = "pset" /\ calls[i].args[1] = q[1] /\ calls[i].args[2] = q[2])

\* From copy c to copy d, one _draw_triangle(T) later: no entry grew, and
\* where the fragment of T was rejected nothing changed.
DrawStepKeeps(c, d, T) ==
    \A q \in SurfacePixels(c.r) :
        /\ d.r.zbuf[q[2]][q[1]] <= c.r.zbuf[q[2]][q[1]]
        /\ Denom(T) = 0 \/ IsRejected(Fragment(T, q[1], q[2]), c.r.zbuf[q[2]][q[1]]) =>
            /\ d.r.zbuf[q[2]][q[1]] = c.r.zbuf[q[2]][q[1]]
            /\ NoPSetFrom(d.calls, Len(c.calls) + 1, q)

FaceNz(i) == FaceNormal(scene.cam_pts, scene.mesh.faces[i])[3]

\* GouraudRenderer draws no face with nz <= 0.
GouraudSkipsFacingAway ==
    scene.r.kind = "gouraud" =>
        \A i \in DOMAIN scene.calls :
            scene.calls[i].face # 0 => FaceNz(scene.calls[i].face) > 0

\* The ink of every outline call of the wired mode is front when the face
\* has nz > 0 and back when it has nz <= 0.
WiredInks(front, back) ==
    scene.r.kind = "hidden" /\ scene.r.wired =>
        \A i \in DOMAIN scene.calls :
            scene.calls[i].op = "line" =>
                scene.calls[i].args[5] = (IF FaceNz(scene.calls[i].face) > 0 THEN front ELSE back)

\* C16: HiddenLineRenderer and GouraudRenderer take a face with nz <= 0 as
\* facing away from the camera: GouraudRenderer skips the faces with
\* nz <= 0, and HiddenLineRenderer in wired mode outlines the faces with
\* nz <= 0 in the darker ink (1, against 7) and the faces with nz > 0 in the
\* front-facing ink.
C16_SameFacingConvention == GouraudSkipsFacingAway /\ WiredInks(7, 1)

\* The wired mode gives the bright ink 7 to the faces with nz <= 0 and the
\* dark ink 1 to the faces with nz > 0.
WiredInksAsDrawn == WiredInks(1, 7)

\* A wired HiddenLineRenderer has outlined a face with nz < 0 and a face with
\* nz > 0.
WiredDrewBothFacings ==
    /\ scene.r.kind = "hidden" /\ scene.r.wired
    /\ \E i, j \in DOMAIN scene.calls :
        /\ scene.calls[i].op = "line" /\ FaceNz(scene.calls[i].face) < 0
        /\ scene.calls[j].op = "line" /\ FaceNz(scene.calls[j].face) > 0

(***************************************************************************)
(* Specification SpecShade: one fragment of a triangle that covers the     *)
(* surface is shaded by _draw_triangle of a z-buffered renderer, for       *)
(* vertex intensities and vertex normals of every kind.                    *)
(***************************************************************************)
\* Vertex intensities, some outside 0..1, and unit vertex normals.
ShadeIntensities == {-HALF, 0, HALF, ONE, ONE + HALF}

ShadeNormals ==
    {<<0, 0, ONE>>, <<0, 0, -ONE>>, <<ONE, 0, 0>>, <<RoundDiv(6 * ONE, 10), 0, RoundDiv(8 * ONE, 10)>>}

ShadeLevels == {2, 3, 16}

ShadePixels == {<<0, 0>>, <<1, 2>>, <<3, 1>>, <<2, 5>>}

ShadeRenderers ==
    {ZBufferedGouraudRenderer(MeshCamera, <<0, 0, -ONE>>, Ambient02, n) : n \in ShadeLevels}
    \cup {PhongRenderer(MeshCamera, t[1], Ambient02, Diffuse08, Specular04, 32, t[2], t[3], FALSE) :
            t \in {<<0, 0, ONE>>, <<ONE, -ONE, -ONE>>} \X ShadeLevels \X BOOLEAN}

\* The triangle (0, 0), (8, 0), (0, 8) at depth 1.
ShadeTriangle(c, n) ==
    <<Vertex(<<0, 0>>, ONE, c[1], n[1]), Vertex(<<8 * ONE, 0>>, ONE, c[2], n[2]),
      Vertex(<<0, 8 * ONE>>, ONE, c[3], n[3])>>

ShadeTriangles(r) ==
    IF r.kind = "zgouraud"
    THEN {ShadeTriangle(c, <<None, None, None>>) :
            c \in ShadeIntensities \X ShadeIntensities \X ShadeIntensities}
    ELSE {ShadeTriangle(<<None, None, None>>, n) :
            n \in ShadeNormals \X ShadeNormals \X ShadeNormals}

InitShade ==
    /\ clip = Unused
    /\ wire = Unused
    /\ scene = Unused
    /\ pair = Unused
    /\ \E r \in ShadeRenderers, q \in ShadePixels :
        \E T \in ShadeTriangles(r) :
            ctor = [pc |-> "fragment", r |-> r, T |-> T, x |-> q[1], y |-> q[2],
                    c |-> None, shade |-> None]

\* ZBufferedGouraudRenderer._draw_triangle from the interpolation on.
ZGShadePixel ==
    /\ ctor.pc = "fragment" /\ ctor.r.kind = "zgouraud"
    /\ ctor' = [ctor EXCEPT !.pc = "pset",
            !.c = ZGIntensityAt(ctor.T, Fragment(ctor.T, ctor.x, ctor.y)),
            !.shade = ZGShade(ctor.r, ctor.T, ctor.x, ctor.y)]
    /\ UNCHANGED <<clip, wire, scene, pair>>

\* PhongRenderer._draw_triangle from the interpolation on.
PhShadePixel ==
    /\ ctor.pc = "fragment" /\ ctor.r.kind = "phong"
    /\ ctor' = [ctor EXCEPT !.pc = "pset",
            !.c = PhongIntensity(ctor.r, PhNormal(ctor.T, Fragment(ctor.T, ctor.x, ctor.y))),
            !.shade = PhShade(ctor.r, ctor.T, ctor.x, ctor.y)]
    /\ UNCHANGED <<clip, wire, scene, pair>>

NextShade == ZGShadePixel \/ PhShadePixel

SpecShade == InitShade /\ [][NextShade]_vars

\* The shades the claim allows for intensity v = clamped intensity times
\* (levels - 1): floor(v), and with dithering also floor(v) + 1.
ShadesAllowed(v, dithering) ==
    IF dithering THEN {FloorOf(v), FloorOf(v) + 1} ELSE {FloorOf(v)}

Dithers(r) == r.kind = "phong" /\ r.dithering

\* C17: every shade index the z-buffered renderers write is within
\* 0..shade_levels - 1; without dithering it is floor(intensity * (levels - 1))
\* of the intensity clamped to 0..1, with dithering it is that number or the
\* next one, and never more than levels - 1.
C17_ShadeIndexInRange ==
    ctor.pc = "pset" =>
        /\ ctor.shade \in 0..(ctor.r.shade_levels - 1)
        /\ ctor.shade \in ShadesAllowed(Max2(0, Min2(ONE, ctor.c)) * (ctor.r.shade_levels - 1),
                                        Dithers(ctor.r))

\* A dithering renderer has rounded a pixel one level up.
C17_Witness ==
    /\ ctor.pc = "pset" /\ Dithers(ctor.r)
    /\ ctor.shade = FloorOf(ctor.c * (ctor.r.shade_levels - 1)) + 1

\* An intensity above 1 was interpolated and the top level written.
C17_WitnessClamped ==
    /\ ctor.pc = "pset" /\ ctor.c > ONE
    /\ ctor.shade = ctor.r.shade_levels - 1

\* The intensity phong_intensity returns is within 0..1.
PhongIntensityInUnit ==
    ctor.pc = "pset" /\ ctor.r.kind = "phong" => ctor.c \in 0..ONE

(***************************************************************************)
(* The intersection parameter of clip_segment.                             *)
(***************************************************************************)
\* The loop is at a clipping step: the codes are not both 0 and share no
\* bit.
AtClippingStep ==
    clip.pc = "loop" /\ ClipBranch(clip) \in {"raise", "move"}

\* T of the step whose points, after the swap, are w.
TOf(w) == FDiv(TNum(w), TDen(w))

\* C18: in every clipping step of clip_segment the divisor of T is not 0 and
\* 0 < T <= 1, so that no division by zero occurs and the moved point 0
\* stays between the two current endpoints.
C18_ClipParameterInUnit ==
    AtClippingStep =>
        /\ TDen(Swapped(clip)) # 0
        /\ TOf(Swapped(clip)) > 0 /\ TOf(Swapped(clip)) <= ONE

\* Where the divisor is not 0 the parameter is positive.
ClipParameterPositive ==
    AtClippingStep /\ TDen(Swapped(clip)) # 0 => TOf(Swapped(clip)) >= 0

\* A clipping step whose divisor is 0.
ClipDivisorZero == AtClippingStep /\ TDen(Swapped(clip)) = 0

\* A clipping step whose parameter is above 1.
ClipParameterAboveOne ==
    AtClippingStep /\ TDen(Swapped(clip)) # 0 /\ TOf(Swapped(clip)) > ONE

(***************************************************************************)
(* Specification SpecBox: one call of _draw_triangle of a z-buffered       *)
(* renderer with a clear depth buffer, step by step: the test of the       *)
(* denominator, the bounding box, and the loop over the box.               *)
(***************************************************************************)
\* Screen triangles in half pixels: on the surface, across its border, far
\* around it, in a line, and beside it on each side.
BoxShapes ==
    {<<<<2, 2>>, <<14, 2>>, <<8, 14>>>>, <<<<-6, 5>>, <<9, -3>>, <<21, 19>>>>,
     <<<<-40, -40>>, <<60, 4>>, <<6, 60>>>>, <<<<2, 2>>, <<6, 6>>, <<10, 10>>>>,
     <<<<4, 4>>, <<4, 4>>, <<9, 3>>>>, <<<<20, 4>>, <<28, 6>>, <<24, 12>>>>,
     <<<<-18, 2>>, <<-6, 4>>, <<-10, 12>>>>, <<<<2, -20>>, <<12, -8>>, <<6, -5>>>>,
     <<<<3, 40>>, <<9, 19>>, <<13, 33>>>>, <<<<-1, 0>>, <<-1, 14>>, <<-200, 8>>>>,
     <<<<-1, 1>>, <<-60, 6>>, <<-1, 13>>>>}

BoxDepths == {<<1, 1, 1>>, <<1, 2, 3>>, <<-1, 1, 2>>}

BoxTriangle(s, d) ==
    [j \in 1..3 |-> Vertex(<<s[j][1] * HALF, s[j][2] * HALF>>, d[j] * ONE, HALF, <<0, 0, -ONE>>)]

\* The bounding box of the renderer's class.
BoxOf(r, T) == IF r.kind = "zgouraud" THEN ZGBox(r, T) ELSE PhBox(r, T)

\* if min_x > max_x or min_y > max_y: return
BoxIsEmpty(b) == b.min_x > b.max_x \/ b.min_y > b.max_y

\* The pixels of the box where zbuf[y][x] is read: those that pass the weight
\* test and the z test.
ZBufReads(T, box) ==
    SelectSeq(BoxPixels(box), LAMBDA q : FragmentCovers(Fragment(T, q[1], q[2])))

InitBox ==
    /\ clip = Unused
    /\ ctor = Unused
    /\ scene = Unused
    /\ pair = Unused
    /\ \E r \in PairRenderers, s \in BoxShapes, d \in BoxDepths :
        wire = [pc |-> "call", r |-> r, T |-> BoxTriangle(s, d), box |-> None,
                reads |-> <<>>, calls |-> <<>>]

\* if denom == 0: return
BoxDegenerate ==
    /\ wire.pc = "call" /\ Denom(wire.T) = 0
    /\ wire' = [wire EXCEPT !.pc = "returned"]
    /\ UNCHANGED <<clip, ctor, scene, pair>>

BoxEmpty ==
    /\ wire.pc = "call" /\ Denom(wire.T) # 0 /\ BoxIsEmpty(BoxOf(wire.r, wire.T))
    /\ wire' = [wire EXCEPT !.pc = "returned", !.box = BoxOf(wire.r, wire.T)]
    /\ UNCHANGED <<clip, ctor, scene, pair>>

BoxEnter ==
    /\ wire.pc = "call" /\ Denom(wire.T) # 0 /\ ~BoxIsEmpty(BoxOf(wire.r, wire.T))
    /\ wire' = [wire EXCEPT !.pc = "loop", !.box = BoxOf(wire.r, wire.T)]
    /\ UNCHANGED <<clip, ctor, scene, pair>>

\* The two loops over the box.
BoxScan ==
    /\ wire.pc = "loop"
    /\ LET d == DrawTriangle(wire.r, wire.calls, 1, wire.T)
       IN  wire' = [wire EXCEPT !.pc = "returned", !.r = d.r, !.calls = d.calls,
                                !.reads = ZBufReads(wire.T, wire.box)]
    /\ UNCHANGED <<clip, ctor, scene, pair>>

NextBox == BoxDegenerate \/ BoxEmpty \/ BoxEnter \/ BoxScan

SpecBox == InitBox /\ [][NextBox]_vars

OnSurface(r, x, y) == x \in 0..(r.width - 1) /\ y \in 0..(r.height - 1)

\* The box the loop runs over lies on the surface, and so does every pixel
\* whose depth was read and every pixel set.
AccessesOnSurface ==
    /\ wire.pc = "loop" =>
        /\ OnSurface(wire.r, wire.box.min_x, wire.box.min_y)
        /\ OnSurface(wire.r, wire.box.max_x, wire.box.max_y)
    /\ \A i \in DOMAIN wire.reads : OnSurface(wire.r, wire.reads[i][1], wire.reads[i][2])
    /\ \A i \in DOMAIN wire.calls : OnSurface(wire.r, wire.calls[i].args[1], wire.calls[i].args[2])

\* The call read no depth, wrote none and set no pixel.
NoAccess == wire.reads = <<>> /\ wire.calls = <<>> /\ ZBufIsClear(wire.r)

\* The least and the greatest coordinate j of the vertices of T.
LeastOf(T, j) == Min3(T[1].p[j], T[2].p[j], T[3].p[j])
GreatestOf(T, j) == Max3(T[1].p[j], T[2].p[j], T[3].p[j])

\* The bounding box of T and the surface of r have no point in common.
BoxMissesSurface(r, T) ==
    \/ GreatestOf(T, 1) < 0 \/ LeastOf(T, 1) > r.width * ONE
    \/ GreatestOf(T, 2) < 0 \/ LeastOf(T, 2) > r.height * ONE

\* C19: in _draw_triangle of the z-buffered renderers, for any three screen
\* points, every depth-buffer read or write and every set-pixel call has
\* 0 <= x <= width - 1 and 0 <= y <= height - 1, and a triangle whose
\* bounding box does not intersect the surface, or whose denominator is 0,
\* causes no read, write or pixel call.
C19_AccessesInBounds ==
    /\ AccessesOnSurface
    /\ wire.pc = "returned" /\ (Denom(wire.T) = 0 \/ BoxMissesSurface(wire.r, wire.T)) => NoAccess

\* A call that returns at the denominator test or at the test of the clamped
\* box makes no access.
NoAccessOnEarlyReturn ==
    wire.pc = "returned" /\ (Denom(wire.T) = 0 \/ BoxIsEmpty(BoxOf(wire.r, wire.T))) => NoAccess

\* A triangle that reaches beyond the surface on two sides was drawn.
BoxDrewAcrossBorder ==
    /\ wire.pc = "returned" /\ wire.calls # <<>>
    /\ LeastOf(wire.T, 1) < 0 /\ GreatestOf(wire.T, 2) > wire.r.height * ONE

\* A triangle that lies wholly beside the surface has set a pixel.
BoxDrewBesideSurface ==
    wire.pc = "returned" /\ BoxMissesSurface(wire.r, wire.T) /\ wire.calls # <<>>

(***************************************************************************)
(* draw_mesh of a z-buffered renderer called again without clear_zbuffer.  *)
(***************************************************************************)
\* draw_mesh is running, or has run, on the depth buffer an earlier
\* draw_mesh of the same mesh left: the frame did not begin with every depth
\* at z_far, so clear_zbuffer was not called after the frame before it.
DrawnAgainUncleared == ZBuffered(scene.r) /\ scene.frame > 0 /\ ~scene.cleared

\* C20: when draw_mesh of a z-buffered renderer is called twice in a row
\* with the same mesh and camera and clear_zbuffer is not called between the
\* calls, the second call sets no pixel and leaves every depth-buffer entry
\* as it is.
C20_SecondDrawWritesNothing ==
    /\ [](DrawnAgainUncleared => PSets(scene.calls) = <<>>)
    /\ [][DrawnAgainUncleared /\ scene.pc = "faces" => scene'.r.zbuf = scene.r.zbuf]_vars

\* The second of two frames is complete: the first set pixels from a clear
\* depth buffer, the second ran on what the first left and set none.
C20_Witness ==
    /\ DrawnAgainUncleared /\ scene.pc = "idle" /\ scene.frame = 2
    /\ scene.renders = 1 /\ \E s \in scene.shots : s # <<>>
    /\ ~ZBufIsClear(scene.r)
    /\ PSets(scene.calls) = <<>>

=============================================================================
